---- MODULE Spec2Model ----
(***************************************************************************)
(* State-machine model of the NFL red-zone usage / touchdown projection    *)
(* services:                                                               *)
(*   src/app.py   PlayerUsageService and its refresh job and endpoints     *)
(*   src/main.py  TeamAnalysisService and NFLTDBoostCalculator             *)
(*                                                                         *)
(* Numbers are kept exact.  A share is a pair <<numerator, denominator>>;  *)
(* point totals and spreads are counted in half points, implied points in  *)
(* quarter points, touchdown counts in hundredths, advantages in tenths of *)
(* a percent.  pandas NaN is the value Null; a Python value that may be    *)
(* None is None or Some(x).                                                *)
(***************************************************************************)
EXTENDS Integers, Sequences, FiniteSets

Null == "null"

\* An optional value: None, or Some(x).
None == <<>>
Some(x) == <<x>>
Value(opt) == opt[1]

\* What requests.get(url).json() gives: the games, or no answer (it raises).
FetchError == [ok |-> FALSE, games |-> <<>>]
Fetched(games) == [ok |-> TRUE, games |-> games]

(***************************************************************************)
(* Bounds of the model.                                                    *)
(***************************************************************************)
MaxPlays == 3
\* The most players a team lists in the allocation step.
MaxListed == 2
\* The weeks of the season's schedule.
MaxWeek == 3
\* The loads of upstream data a behaviour may start.
MaxLoads == 3

(***************************************************************************)
(* State.                                                                  *)
(***************************************************************************)
VARIABLES
    \* ---- src/app.py
    pbp_feed,        \* the dataset nfl.import_pbp_data([2025]) has to offer
    nfl_up,          \* whether nfl.import_pbp_data answers (FALSE: it raises)
    player_service,  \* the global player_service: [pbp_data, data_loaded]
    usage_result,    \* what the last read of the usage service returned
    refresh_log,     \* what the last refresh loaded and reported
    \* ---- src/main.py: market totals and blending
    games_data,      \* what the odds API answers: its games, or FetchError
    advantage,       \* per matchup of the week, the two total_team_td_advantage_pct
    vegas_totals,    \* what the last get_vegas_team_totals returned (or raised)
    team_analysis,   \* what the last get_team_analysis returned
    \* ---- src/main.py: the calculator's data, a refresh and a read in flight
    td_calculator,   \* team_service.td_calculator: its data, by the load that made it
    loads,           \* how many loads of upstream data have been started
    refresher,       \* the thread serving POST /refresh: where it is in load_data
    reader,          \* the thread serving GET /team-analysis: where it is, what it read
    refresh_answer,  \* what the last POST /refresh answered
    \* ---- src/main.py: the team statistics and the matchup boosts
    rz_stats,        \* what calculate_rz_stats_with_filter returned for the dataset
    matchup_stats,   \* the current_2025 rates of the offense and the defense team
    league_averages, \* self.league_averages
    matchup_boosts,  \* what the last calculate_matchup_boosts returned
    \* ---- the player allocation step
    allocation,      \* the listed players of a team and their allocation weights
    \* ---- src/main.py: the week of the analysis
    week_report      \* the calendar, and the weeks a get_team_analysis() used

appVars == <<pbp_feed, nfl_up, player_service, usage_result, refresh_log>>
vegasVars == <<games_data, advantage, vegas_totals, team_analysis>>

calcVars == <<td_calculator, loads, refresher, reader, refresh_answer>>

boostVars == <<rz_stats, matchup_stats, league_averages, matchup_boosts, allocation, week_report>>

vars == <<appVars, vegasVars, calcVars, boostVars>>

(***************************************************************************)
(* Helpers on sequences and sets.                                          *)
(***************************************************************************)
RECURSIVE SumOver(_, _)
SumOver(S, f) ==
    IF S = {} THEN 0
    ELSE LET x == CHOOSE y \in S : TRUE IN f[x] + SumOver(S \ {x}, f)

RECURSIVE Unique(_)
\* pandas Series.unique(): the values in order of first appearance.
Unique(s) ==
    IF s = <<>> THEN <<>>
    ELSE LET rest == Unique(SubSeq(s, 1, Len(s) - 1))
             last == s[Len(s)]
         IN IF \E i \in DOMAIN rest : rest[i] = last THEN rest ELSE Append(rest, last)

Column(df, col) == [i \in DOMAIN df |-> df[i][col]]

RECURSIVE Concat(_)
\* pd.concat(frames, ignore_index=True)
Concat(frames) ==
    IF frames = <<>> THEN <<>> ELSE Head(frames) \o Concat(Tail(frames))

\* round(x, digits) of the rational num/den, in units of 1/scale: to the nearest,
\* an exact tie to the even neighbour.
RoundHalfEven(num, den, scale) ==
    LET n == num * scale
        q == n \div den
        r == n % den
    IN IF 2 * r < den THEN q
       ELSE IF 2 * r > den THEN q + 1
       ELSE IF q % 2 = 0 THEN q ELSE q + 1

(***************************************************************************)
(* src/app.py: PlayerUsageService                                          *)
(***************************************************************************)
EmptyDataFrame == <<>>
EmptyDict == <<>>

\* PlayerUsageService() : __init__ runs load_nfl_data and swallows its failure.
LoadSucceeds(feed, up) == up /\ feed # EmptyDataFrame

NewPlayerUsageService(feed, up) ==
    IF LoadSucceeds(feed, up)
    THEN [pbp_data |-> feed, data_loaded |-> TRUE]
    ELSE [pbp_data |-> EmptyDataFrame, data_loaded |-> FALSE]

\* The red-zone play filter with two-point attempts let through.
IsRzPlayWithTwoPoint(p, team) ==
    /\ p.posteam = team
    /\ p.yardline_100 <= 20
    /\ (p.rush = 1 \/ p.pass = 1)

\* The red-zone play filter of get_player_rz_usage_share.
IsRzPlay(p, team) ==
    /\ p.posteam = team
    /\ p.yardline_100 <= 20
    /\ (p.rush = 1 \/ p.pass = 1)
    /\ p.two_point_attempt # 1

RzData(pbp, team) == SelectSeq(pbp, LAMBDA p : IsRzPlay(p, team))

\* The 2+ plays filter dropped: every drive of the game is kept.
DrivesOfGameNoFloor(game_data) ==
    LET ids == Unique(Column(game_data, "fixed_drive"))
        frame(d) == SelectSeq(game_data, LAMBDA p : p.fixed_drive = d)
        kept == SelectSeq(ids, LAMBDA d : d # Null)
    IN [k \in DOMAIN kept |-> frame(kept[k])]

\* The floor of the drive filter at 3 plays instead of 2.
DrivesOfGameThreePlays(game_data) ==
    LET ids == Unique(Column(game_data, "fixed_drive"))
        frame(d) == SelectSeq(game_data, LAMBDA p : p.fixed_drive = d)
        kept == SelectSeq(ids, LAMBDA d : d # Null /\ Len(frame(d)) >= 3)
    IN [k \in DOMAIN kept |-> frame(kept[k])]

\* The plays without a drive id taken for one drive of the game.
DrivesOfGameNullGrouped(game_data) ==
    LET ids == Unique(Column(game_data, "fixed_drive"))
        frame(d) == SelectSeq(game_data, LAMBDA p : p.fixed_drive = d)
        kept == SelectSeq(ids, LAMBDA d : Len(frame(d)) >= 2)
    IN [k \in DOMAIN kept |-> frame(kept[k])]

\* The drives of one game that pass the 2+ plays filter, in order of first
\* appearance of the drive id.
DrivesOfGame(game_data) ==
    LET ids == Unique(Column(game_data, "fixed_drive"))
        frame(d) == SelectSeq(game_data, LAMBDA p : p.fixed_drive = d)
        kept == SelectSeq(ids, LAMBDA d : d # Null /\ Len(frame(d)) >= 2)
    IN [k \in DOMAIN kept |-> frame(kept[k])]

\* filtered_plays: the list of surviving drive frames.
FilteredPlays(rz_data) ==
    LET ids == Unique(Column(rz_data, "game_id"))
        games == SelectSeq(ids, LAMBDA g : g # Null)
        game_data(g) == SelectSeq(rz_data, LAMBDA p : p.game_id = g)
    IN Concat([k \in DOMAIN games |-> DrivesOfGame(game_data(games[k]))])

\* The ids of an id column, the null id among them.
PlayerIdsWithNull(data, idcol) == {data[i][idcol] : i \in DOMAIN data}

\* value_counts() of an id column: the non-null ids and their counts.
PlayerIds(data, idcol) == {data[i][idcol] : i \in DOMAIN data} \ {Null}

ValueCount(data, idcol, id) == Len(SelectSeq(data, LAMBDA p : p[idcol] = id))

\* player_name_series.iloc[0]
PlayerName(data, idcol, namecol, id) ==
    SelectSeq(data, LAMBDA p : p[idcol] = id)[1][namecol]

\* One accumulation loop: every non-null id adds count/total to the entry of
\* its display name.
AccumulateShares(shares, data, idcol, namecol, total) ==
    LET ids == PlayerIds(data, idcol)
        named == {id \in ids : PlayerName(data, idcol, namecol, id) # Null}
        count == [id \in named |-> ValueCount(data, idcol, id)]
        nameOf == [id \in named |-> PlayerName(data, idcol, namecol, id)]
        names == DOMAIN shares \cup {nameOf[id] : id \in named}
    IN [n \in names |->
          <<(IF n \in DOMAIN shares THEN shares[n][1] ELSE 0)
              + SumOver({id \in named : nameOf[id] = n}, count), total>>]

SharesOf(plays, total) ==
    LET rush_data == SelectSeq(plays, LAMBDA p : p.rush = 1)
        pass_data == SelectSeq(plays, LAMBDA p : p.pass = 1)
        rushing == AccumulateShares(EmptyDict, rush_data,
                                    "rusher_player_id", "rusher_player_name", total)
    IN AccumulateShares(rushing, pass_data,
                        "receiver_player_id", "receiver_player_name", total)

GetPlayerRzUsageShare(svc, team) ==
    IF ~svc.data_loaded \/ svc.pbp_data = EmptyDataFrame THEN EmptyDict
    ELSE LET rz_data == RzData(svc.pbp_data, team)
         IN IF rz_data = EmptyDataFrame THEN EmptyDict
            ELSE LET filtered_plays == FilteredPlays(rz_data)
                     rz_filtered == Concat(filtered_plays)
                 IN IF filtered_plays = <<>> THEN EmptyDict
                    ELSE SharesOf(rz_filtered, Len(rz_filtered))

\* Touchdown shares taken over the red-zone plays of the 2+ plays drives only.
GetPlayerTdShareRzFiltered(svc, team) ==
    IF ~svc.data_loaded \/ svc.pbp_data = EmptyDataFrame THEN EmptyDict
    ELSE LET rz_filtered == Concat(FilteredPlays(RzData(svc.pbp_data, team)))
             td_data == SelectSeq(rz_filtered, LAMBDA p : p.touchdown = 1)
         IN IF td_data = EmptyDataFrame THEN EmptyDict
            ELSE SharesOf(td_data, Len(td_data))

GetPlayerTdShare(svc, team) ==
    IF ~svc.data_loaded \/ svc.pbp_data = EmptyDataFrame THEN EmptyDict
    ELSE LET td_data == SelectSeq(svc.pbp_data,
                                  LAMBDA p : p.posteam = team /\ p.touchdown = 1)
         IN IF td_data = EmptyDataFrame THEN EmptyDict
            ELSE SharesOf(td_data, Len(td_data))

\* round(share, 4), in ten-thousandths.
Round4(share) == RoundHalfEven(share[1], share[2], 10000)

ShareOrZero(shares, player) ==
    IF player \in DOMAIN shares THEN Round4(shares[player]) ELSE 0

Orderings(S) ==
    {s \in [1..Cardinality(S) -> S] : \A i, j \in DOMAIN s : i # j => s[i] # s[j]}

\* get_team_player_usage: the players of either metric, sorted by the sum of
\* the two rounded shares, largest first.  sorted() is stable, and the order it
\* starts from is the iteration order of a Python set of names, which is not
\* fixed: every order that is sorted by the key is a possible result.
TeamPlayerUsageResults(svc, team) ==
    LET rz_usage == GetPlayerRzUsageShare(svc, team)
        td_shares == GetPlayerTdShare(svc, team)
        all_players == DOMAIN rz_usage \cup DOMAIN td_shares
        entry(n) == [player |-> n,
                     rz_usage_share |-> ShareOrZero(rz_usage, n),
                     td_share |-> ShareOrZero(td_shares, n)]
        key(n) == entry(n).rz_usage_share + entry(n).td_share
        orders == {s \in Orderings(all_players) :
                      \A i, j \in DOMAIN s : i < j => key(s[i]) >= key(s[j])}
    IN {[team |-> team,
         rz_usage |-> rz_usage,
         td_shares |-> td_shares,
         players |-> [i \in DOMAIN s |-> entry(s[i])],
         total_players |-> Cardinality(all_players)] : s \in orders}

\* The teams of the dataset that have a red-zone play, the others left out.
TeamsWithRzPlays(pbp) ==
    {pbp[i].posteam : i \in {j \in DOMAIN pbp : pbp[j].yardline_100 <= 20}} \ {Null}

\* sorted(posteam.dropna().unique())
TeamsIn(pbp) == {pbp[i].posteam : i \in DOMAIN pbp} \ {Null}

NoResult == [op |-> "none"]
NoRefresh == [by |-> "none"]

\* GET /player-usage/<team> and GET /player-usage?team=<team>
GetTeamPlayerUsage(team) ==
    /\ \E team_data \in TeamPlayerUsageResults(player_service, team) :
          usage_result' = [op |-> "team", data |-> team_data]
    /\ UNCHANGED <<pbp_feed, nfl_up, player_service, refresh_log, vegasVars, calcVars, boostVars>>

\* GET /player-usage : get_all_teams_usage.  A service that has no data loads
\* it first, in place; a failed load ends the request with an error.
GetAllTeamsUsage ==
    LET reload == ~player_service.data_loaded
        svc == IF reload THEN NewPlayerUsageService(pbp_feed, nfl_up)
               ELSE player_service
        teams == TeamsIn(svc.pbp_data)
    IN /\ player_service' = svc
       /\ IF ~svc.data_loaded \/ svc.pbp_data = EmptyDataFrame
          THEN usage_result' = [op |-> "all", error |-> TRUE, teams |-> EmptyDict]
          ELSE \E all \in [teams -> UNION {TeamPlayerUsageResults(svc, t) : t \in teams}] :
                  /\ \A t \in teams : all[t] \in TeamPlayerUsageResults(svc, t)
                  /\ usage_result' = [op |-> "all", error |-> FALSE, teams |-> all,
                                      total_teams_processed |-> Cardinality(teams),
                                      successful_teams |-> Cardinality(teams)]
       /\ UNCHANGED <<pbp_feed, nfl_up, refresh_log, vegasVars, calcVars, boostVars>>

\* refresh_data_job: the scheduled refresh rebinds the global to a new service
\* and logs "completed successfully"; the constructor never raises.
RefreshDataJob ==
    /\ player_service' = NewPlayerUsageService(pbp_feed, nfl_up)
    /\ refresh_log' = [by |-> "job",
                       load_ok |-> LoadSucceeds(pbp_feed, nfl_up),
                       status |-> "success"]
    /\ UNCHANGED <<pbp_feed, nfl_up, usage_result, vegasVars, calcVars, boostVars>>

\* POST /refresh : the same rebinding, answered with status "success" and the
\* new service's data_loaded.
RefreshData ==
    /\ player_service' = NewPlayerUsageService(pbp_feed, nfl_up)
    /\ refresh_log' = [by |-> "endpoint",
                       load_ok |-> LoadSucceeds(pbp_feed, nfl_up),
                       status |-> "success",
                       data_loaded |-> player_service'.data_loaded]
    /\ UNCHANGED <<pbp_feed, nfl_up, usage_result, vegasVars, calcVars, boostVars>>

\* TeamAnalysisService.league_averages_2024, in tenths of a percent.
LeagueAverages2024 ==
    [rz_scoring |-> 590, rz_allow |-> 590,
     all_drives_scoring |-> 233, all_drives_allow |-> 233]

\* No statistics computed, no matchup analysed.
BoostIdle ==
    /\ rz_stats = NoResult
    /\ matchup_stats = NoResult
    /\ league_averages = LeagueAverages2024
    /\ matchup_boosts = NoResult
    /\ allocation = NoResult
    /\ week_report = NoResult

\* team_service as constructed, no request in flight.
NoCalculator ==
    [made |-> FALSE, current_2025 |-> 0, schedule_data |-> 0, data_loaded |-> FALSE]

CalcIdle ==
    /\ td_calculator = NoCalculator
    /\ loads = 0
    /\ refresher = [pc |-> "idle", tag |-> 0]
    /\ reader = [pc |-> "idle", schedule_seen |-> <<>>, stats_seen |-> <<>>,
                 result |-> "none"]
    /\ refresh_answer = "none"

\* The market side at rest: what the specifications of the usage service hold
\* it to.
MarketIdle ==
    /\ games_data = FetchError
    /\ advantage = <<>>
    /\ vegas_totals = NoResult
    /\ team_analysis = NoResult

VegasIdle ==
    /\ CalcIdle
    /\ BoostIdle
    /\ MarketIdle

(***************************************************************************)
(* src/main.py: NFLTDBoostCalculator's red-zone statistics                 *)
(***************************************************************************)
\* The red-zone statistics without the 2+ plays filter: every red-zone
\* drive counts.
RzStatsOfAllDrives(df, teamcol) ==
    LET rz_drives == SelectSeq(df, LAMBDA p : p.yardline_100 <= 20 /\ p.fixed_drive # Null)
        teams == {rz_drives[i][teamcol] : i \in DOMAIN rz_drives} \ {Null}
        team_rz(t) == SelectSeq(rz_drives, LAMBDA p : p[teamcol] = t)
        drive(t, k) == SelectSeq(team_rz(t),
                                 LAMBDA p : p.game_id = k[1] /\ p.fixed_drive = k[2])
        keys(t) == {<<team_rz(t)[i].game_id, team_rz(t)[i].fixed_drive>> :
                        i \in {j \in DOMAIN team_rz(t) : team_rz(t)[j].game_id # Null}}
        scored(t) == {k \in keys(t) :
                         \E i \in DOMAIN drive(t, k) : drive(t, k)[i].touchdown = 1}
    IN [t \in {u \in teams : keys(u) # {}} |->
          [drives |-> Cardinality(keys(t)),
           tds |-> Cardinality(scored(t)),
           rate |-> RoundHalfEven(Cardinality(scored(t)) * 100, Cardinality(keys(t)), 10)]]

\* calculate_rz_stats_with_filter for the teams of one column (posteam for
\* the offense, defteam for the defense): the red-zone plays that name their
\* drive, grouped by (game_id, fixed_drive), groupby leaving out the rows
\* whose key is null; the drives of 2+ plays and how many of them hold a
\* touchdown; the rate in tenths of a percent.
RzStats(df, teamcol) ==
    LET rz_drives == SelectSeq(df, LAMBDA p : p.yardline_100 <= 20 /\ p.fixed_drive # Null)
        teams == {rz_drives[i][teamcol] : i \in DOMAIN rz_drives} \ {Null}
        team_rz(t) == SelectSeq(rz_drives, LAMBDA p : p[teamcol] = t)
        drive(t, k) == SelectSeq(team_rz(t),
                                 LAMBDA p : p.game_id = k[1] /\ p.fixed_drive = k[2])
        keys(t) == {<<team_rz(t)[i].game_id, team_rz(t)[i].fixed_drive>> :
                        i \in {j \in DOMAIN team_rz(t) : team_rz(t)[j].game_id # Null}}
        multi_play_drives(t) == {k \in keys(t) : Len(drive(t, k)) > 1}
        scored(t) == {k \in multi_play_drives(t) :
                         \E i \in DOMAIN drive(t, k) : drive(t, k)[i].touchdown = 1}
    IN [t \in {u \in teams : multi_play_drives(u) # {}} |->
          [drives |-> Cardinality(multi_play_drives(t)),
           tds |-> Cardinality(scored(t)),
           rate |-> RoundHalfEven(Cardinality(scored(t)) * 100,
                                  Cardinality(multi_play_drives(t)), 10)]]

\* load_data computes the red-zone statistics of the dataset it imported.
CalculateRzStats ==
    /\ rz_stats' = [op |-> "rz_stats",
                    offense_rz |-> RzStats(pbp_feed, "posteam"),
                    defense_rz |-> RzStats(pbp_feed, "defteam")]
    /\ UNCHANGED <<appVars, vegasVars, calcVars,
                   matchup_stats, league_averages, matchup_boosts, allocation, week_report>>

(***************************************************************************)
(* The plays the model draws its datasets from: one base play and the      *)
(* plays that differ from it in one respect, or in that and a touchdown.   *)
(***************************************************************************)
BasePlay ==
    [posteam |-> "KC", defteam |-> "SF", game_id |-> "g1", fixed_drive |-> "d1", yardline_100 |-> 20,
     rush |-> 1, pass |-> 0, two_point_attempt |-> 0, touchdown |-> 0,
     rusher_player_id |-> "p1", rusher_player_name |-> "J.Smith",
     receiver_player_id |-> Null, receiver_player_name |-> Null]

PlayUniverse ==
    {BasePlay,
     [BasePlay EXCEPT !.posteam = "SF", !.defteam = "KC"],
     [BasePlay EXCEPT !.fixed_drive = "d2"],
     [BasePlay EXCEPT !.game_id = "g2"],
     [BasePlay EXCEPT !.yardline_100 = 21],
     [BasePlay EXCEPT !.two_point_attempt = 1],
     [BasePlay EXCEPT !.touchdown = 1],
     [BasePlay EXCEPT !.rush = 0, !.pass = 1,
                      !.rusher_player_id = Null, !.rusher_player_name = Null,
                      !.receiver_player_id = "p1", !.receiver_player_name = "J.Smith"],
     [BasePlay EXCEPT !.rush = 0, !.rusher_player_id = Null, !.rusher_player_name = Null],
     [BasePlay EXCEPT !.rusher_player_id = "p2"],
     [BasePlay EXCEPT !.rusher_player_id = "p2", !.rusher_player_name = "A.Jones"],
     [BasePlay EXCEPT !.rusher_player_id = "p2", !.touchdown = 1],
     [BasePlay EXCEPT !.yardline_100 = 21, !.touchdown = 1],
     [BasePlay EXCEPT !.rusher_player_id = Null, !.touchdown = 1],
     [BasePlay EXCEPT !.game_id = Null],
     [BasePlay EXCEPT !.fixed_drive = Null]}

Teams == {"KC", "SF"}

Datasets(n) == UNION {[1..k -> PlayUniverse] : k \in 0..n}

(***************************************************************************)
(* SpecShares: the share computations over every dataset of up to MaxPlays *)
(* plays, the data source answering.                                       *)
(***************************************************************************)
InitShares ==
    /\ pbp_feed \in Datasets(MaxPlays)
    /\ nfl_up = TRUE
    /\ player_service = NewPlayerUsageService(pbp_feed, nfl_up)
    /\ usage_result = NoResult
    /\ refresh_log = NoRefresh
    /\ VegasIdle

NextShares ==
    \/ \E team \in Teams : GetTeamPlayerUsage(team)
    \/ GetAllTeamsUsage
    \/ CalculateRzStats

SpecShares == InitShares /\ [][NextShares]_vars

(***************************************************************************)
(* SpecService: the life of the usage service.  The data source may change *)
(* what it offers, go down and come back; the service is refreshed by the  *)
(* scheduled job or by POST /refresh, and read.                            *)
(***************************************************************************)
ServicePlays ==
    {BasePlay,
     [BasePlay EXCEPT !.touchdown = 1],
     [BasePlay EXCEPT !.posteam = "SF", !.defteam = "KC"]}

ServiceFeeds == {EmptyDataFrame} \cup [1..2 -> ServicePlays]

\* The data source publishes another dataset, stops answering or answers again.
UpstreamChange ==
    /\ pbp_feed' \in ServiceFeeds
    /\ nfl_up' \in BOOLEAN
    /\ UNCHANGED <<player_service, usage_result, refresh_log, vegasVars, calcVars, boostVars>>

InitService ==
    /\ pbp_feed \in ServiceFeeds
    /\ nfl_up \in BOOLEAN
    /\ player_service = NewPlayerUsageService(pbp_feed, nfl_up)
    /\ usage_result = NoResult
    /\ refresh_log = NoRefresh
    /\ VegasIdle

NextService ==
    \/ UpstreamChange
    \/ RefreshDataJob
    \/ RefreshData
    \/ \E team \in Teams : GetTeamPlayerUsage(team)
    \/ GetAllTeamsUsage

SpecService == InitService /\ [][NextService]_vars

(***************************************************************************)
(* Claims about the usage service.                                         *)
(***************************************************************************)
\* The per-team results the last read returned.
ReadUsage ==
    IF usage_result.op = "team" THEN {usage_result.data}
    ELSE IF usage_result.op = "all" /\ ~usage_result.error
         THEN {usage_result.teams[t] : t \in DOMAIN usage_result.teams}
         ELSE {}

\* How many qualifying red-zone plays of the team the drive (g, d) has.
QualifyingPlays(pbp, team, g, d) ==
    Cardinality({i \in DOMAIN pbp : /\ IsRzPlay(pbp[i], team)
                                    /\ pbp[i].game_id = g
                                    /\ pbp[i].fixed_drive = d})

\* The play names the drive it belongs to.
HasDriveKey(p) == p.game_id # Null /\ p.fixed_drive # Null

InShortDrive(pbp, team, p) ==
    p.posteam = team /\ QualifyingPlays(pbp, team, p.game_id, p.fixed_drive) < 2

WithoutShortDrives(pbp, team) ==
    SelectSeq(pbp, LAMBDA p : ~InShortDrive(pbp, team, p))

\* C1: the plays of a drive with fewer than 2 qualifying red-zone plays are
\* counted in no numerator and not in the denominator of the red-zone usage
\* shares: the shares a read returns are those of the dataset with all such
\* plays taken out, and their denominator is the number of qualifying plays
\* that lie in drives of 2 or more qualifying plays.
C1_ShortDrivesNotCounted ==
    \A d \in ReadUsage :
        LET pbp == player_service.pbp_data
            kept == WithoutShortDrives(pbp, d.team)
            counted == {i \in DOMAIN pbp : /\ IsRzPlay(pbp[i], d.team)
                                           /\ HasDriveKey(pbp[i])
                                           /\ ~InShortDrive(pbp, d.team, pbp[i])}
        IN /\ d.rz_usage =
                 GetPlayerRzUsageShare([pbp_data |-> kept, data_loaded |-> TRUE], d.team)
           /\ \A n \in DOMAIN d.rz_usage :
                 /\ d.rz_usage[n][2] = Cardinality(counted)
                 /\ d.rz_usage[n][1] <= Cardinality(counted)

\* A read returned usage shares for a team that also has a qualifying play in
\* a drive of fewer than 2 qualifying plays.
C1_Witness ==
    \E d \in ReadUsage :
        /\ d.rz_usage # EmptyDict
        /\ \E i \in DOMAIN player_service.pbp_data :
              LET p == player_service.pbp_data[i]
              IN IsRzPlay(p, d.team) /\ InShortDrive(player_service.pbp_data, d.team, p)

\* The plays of one player identity in a working play set: its rushes and the
\* passes thrown to it.
IdentityCount(plays, id) ==
    Len(SelectSeq(plays, LAMBDA p : \/ p.rush = 1 /\ p.rusher_player_id = id
                                    \/ p.pass = 1 /\ p.receiver_player_id = id))

Identities(plays) ==
    PlayerIds(plays, "rusher_player_id") \cup PlayerIds(plays, "receiver_player_id")

SingleIdentityEntries(shares, plays) ==
    \A n \in DOMAIN shares :
        \E id \in Identities(plays) : shares[n][1] = IdentityCount(plays, id)

\* C2: shares are accumulated by player identity: every entry of the usage
\* shares and of the touchdown shares is the share of one player id, so two
\* ids that share a display name are not merged into one entry.
C2_SharesKeyedByIdentity ==
    \A d \in ReadUsage :
        LET pbp == player_service.pbp_data
            rz_filtered == Concat(FilteredPlays(RzData(pbp, d.team)))
            td_data == SelectSeq(pbp, LAMBDA p : p.posteam = d.team /\ p.touchdown = 1)
        IN /\ SingleIdentityEntries(d.rz_usage, rz_filtered)
           /\ SingleIdentityEntries(d.td_shares, td_data)

\* What every read of the service would return.
ReadView(svc) ==
    [t \in Teams |-> <<GetPlayerRzUsageShare(svc, t), GetPlayerTdShare(svc, t)>>]

\* C4: a refresh whose load fails is rejected as a whole: the reads after it
\* return what they returned before it.
C4_FailedRefreshKeepsSnapshot ==
    [][((RefreshDataJob \/ RefreshData) /\ ~LoadSucceeds(pbp_feed, nfl_up))
          => ReadView(player_service') = ReadView(player_service)]_vars

\* C5: a refresh whose load failed does not report success.
C5_FailedRefreshNotReportedSuccess ==
    (refresh_log.by # "none" /\ ~refresh_log.load_ok) => refresh_log.status # "success"

(***************************************************************************)
(* src/main.py: TeamAnalysisService, market totals                         *)
(***************************************************************************)
\* self.team_mapping.get(name)
TeamAbbr(name) ==
    CASE name = "Arizona Cardinals" -> "ARI"
      [] name = "Atlanta Falcons" -> "ATL"
      [] name = "Baltimore Ravens" -> "BAL"
      [] name = "Buffalo Bills" -> "BUF"
      [] name = "Carolina Panthers" -> "CAR"
      [] name = "Chicago Bears" -> "CHI"
      [] name = "Cincinnati Bengals" -> "CIN"
      [] name = "Cleveland Browns" -> "CLE"
      [] name = "Dallas Cowboys" -> "DAL"
      [] name = "Denver Broncos" -> "DEN"
      [] name = "Detroit Lions" -> "DET"
      [] name = "Green Bay Packers" -> "GB"
      [] name = "Houston Texans" -> "HOU"
      [] name = "Indianapolis Colts" -> "IND"
      [] name = "Jacksonville Jaguars" -> "JAX"
      [] name = "Kansas City Chiefs" -> "KC"
      [] name = "Los Angeles Rams" -> "LAR"
      [] name = "Miami Dolphins" -> "MIA"
      [] name = "Minnesota Vikings" -> "MIN"
      [] name = "New England Patriots" -> "NE"
      [] name = "New Orleans Saints" -> "NO"
      [] name = "New York Giants" -> "NYG"
      [] name = "New York Jets" -> "NYJ"
      [] name = "Las Vegas Raiders" -> "LV"
      [] name = "Philadelphia Eagles" -> "PHI"
      [] name = "Pittsburgh Steelers" -> "PIT"
      [] name = "Los Angeles Chargers" -> "LAC"
      [] name = "San Francisco 49ers" -> "SF"
      [] name = "Seattle Seahawks" -> "SEA"
      [] name = "Tampa Bay Buccaneers" -> "TB"
      [] name = "Tennessee Titans" -> "TEN"
      [] name = "Washington Commanders" -> "WAS"
      [] OTHER -> Null

BookPriority == <<"fanduel", "draftkings", "betmgm", "caesars", "betrivers">>

\* w_edge = 0.25, in hundredths.
WEdge == 25
\* fg_penalty = 0.75, in hundredths.
FgPenalty == 75
PointsPerTd == 7
\* The cap of the advantage, 0.30, in thousandths.
MaxAdvantage == 300


\* A game key, f"{away}@{home}", as the pair of the two abbreviations.
GameKey(away, home) == <<away, home>>

ExpectedGames(matchups) ==
    {GameKey(matchups[i].away_team, matchups[i].home_team) : i \in DOMAIN matchups}

\* The first bookmaker the game lists that is in the priority list.
SelectedBookmakerFirstListed(game) ==
    LET known == SelectSeq(game.bookmakers,
                           LAMBDA b : \E i \in DOMAIN BookPriority : BookPriority[i] = b.key)
    IN IF known = <<>> THEN None ELSE Some(known[1])

\* The first bookmaker of the priority list the game has, if any.
SelectedBookmaker(game) ==
    LET listed(k) == SelectSeq(game.bookmakers, LAMBDA b : b.key = k)
        offered == SelectSeq(BookPriority, LAMBDA k : listed(k) # <<>>)
    IN IF offered = <<>> THEN None ELSE Some(listed(offered[1])[1])

\* The last market of the bookmaker with this key, if any.
MarketOf(bookmaker, key) ==
    LET found == SelectSeq(bookmaker.markets, LAMBDA m : m.key = key)
    IN IF found = <<>> THEN None ELSE Some(found[Len(found)])

\* The point of the first outcome named 'Over', if any.
OverPoint(totals_market) ==
    LET over == SelectSeq(totals_market.outcomes, LAMBDA o : o.name = "Over")
    IN IF over = <<>> THEN None ELSE Some(over[1].point)

\* The point of the last outcome with this name, if any.
SpreadPoint(spreads_market, name) ==
    LET found == SelectSeq(spreads_market.outcomes, LAMBDA o : o.name = name)
    IN IF found = <<>> THEN None ELSE Some(found[Len(found)].point)

\* Implied points in quarter points, from the total and the home spread in
\* half points.  The branch for home_spread >= 0 as the code has it.
\* The home spread added to the total whichever side is favored.
HomeImpliedPointsAddingSpread(game_total, home_spread) == game_total + home_spread

HomeImpliedPoints(game_total, home_spread) ==
    IF home_spread < 0 THEN game_total - home_spread ELSE game_total + home_spread

AwayImpliedPoints(game_total, home_spread) ==
    IF home_spread < 0 THEN game_total + home_spread ELSE game_total - home_spread

\* round(implied_points * fg_penalty / 7, 2), in hundredths of a touchdown.
VegasTds(implied_points) ==
    RoundHalfEven(implied_points * FgPenalty, 4 * 100 * PointsPerTd, 100)

Skip == [kind |-> "skip"]
Fault == [kind |-> "raise"]

\* A missing spread point read as 0 instead of skipping the game.
GameTotalsDefaultingSpread(game, expected_games) ==
    LET home_abbr == TeamAbbr(game.home_team)
        away_abbr == TeamAbbr(game.away_team)
        game_key == GameKey(away_abbr, home_abbr)
        selected_bookmaker == SelectedBookmaker(game)
        totals_market == MarketOf(Value(selected_bookmaker), "totals")
        spreads_market == MarketOf(Value(selected_bookmaker), "spreads")
        over == OverPoint(Value(totals_market))
        game_total == IF over = None THEN Value(totals_market).outcomes[1].point
                      ELSE Value(over)
        home_point == SpreadPoint(Value(spreads_market), game.home_team)
        home_spread == IF home_point = None THEN 0 ELSE Value(home_point)
    IN IF home_abbr = Null \/ away_abbr = Null THEN Skip
       ELSE IF game_key \notin expected_games THEN Skip
       ELSE IF selected_bookmaker = None THEN Skip
       ELSE IF totals_market = None \/ spreads_market = None THEN Skip
       ELSE IF over = None /\ Value(totals_market).outcomes = <<>> THEN Fault
       ELSE [kind |-> "ok",
             game_key |-> game_key,
             entry |-> [home_team |-> home_abbr,
                        away_team |-> away_abbr,
                        home_vegas_tds |-> VegasTds(HomeImpliedPoints(game_total, home_spread)),
                        away_vegas_tds |-> VegasTds(AwayImpliedPoints(game_total, home_spread)),
                        commence_time |-> game.commence_time,
                        bookmaker |-> Value(selected_bookmaker).key]]

\* One pass of the loop of get_vegas_team_totals over a game of the answer:
\* the game is skipped, or raises (a totals market without outcomes), or
\* yields its entry.  Every point the answer lists is a number.
GameTotals(game, expected_games) ==
    LET home_abbr == TeamAbbr(game.home_team)
        away_abbr == TeamAbbr(game.away_team)
        game_key == GameKey(away_abbr, home_abbr)
        selected_bookmaker == SelectedBookmaker(game)
        totals_market == MarketOf(Value(selected_bookmaker), "totals")
        spreads_market == MarketOf(Value(selected_bookmaker), "spreads")
        over == OverPoint(Value(totals_market))
        game_total == IF over = None THEN Value(totals_market).outcomes[1].point
                      ELSE Value(over)
        home_spread == SpreadPoint(Value(spreads_market), game.home_team)
        away_spread == SpreadPoint(Value(spreads_market), game.away_team)
    IN IF home_abbr = Null \/ away_abbr = Null THEN Skip
       ELSE IF game_key \notin expected_games THEN Skip
       ELSE IF selected_bookmaker = None THEN Skip
       ELSE IF totals_market = None \/ spreads_market = None THEN Skip
       ELSE IF over = None /\ Value(totals_market).outcomes = <<>> THEN Fault
       ELSE IF home_spread = None \/ away_spread = None THEN Skip
       ELSE [kind |-> "ok",
             game_key |-> game_key,
             entry |-> [home_team |-> home_abbr,
                        away_team |-> away_abbr,
                        home_vegas_tds |->
                            VegasTds(HomeImpliedPoints(game_total, Value(home_spread))),
                        away_vegas_tds |->
                            VegasTds(AwayImpliedPoints(game_total, Value(home_spread))),
                        commence_time |-> game.commence_time,
                        bookmaker |-> Value(selected_bookmaker).key]]

\* get_vegas_team_totals: {} when the fetch fails or the week has no matchups;
\* otherwise the entries of the games that yield one, a later game of the same
\* key overwriting an earlier one.  A game that raises ends the call: the loop
\* has no handler of its own.
VegasTeamTotals(answer, matchups) ==
    IF ~answer.ok THEN [raised |-> FALSE, totals |-> EmptyDict]
    ELSE IF matchups = <<>> THEN [raised |-> FALSE, totals |-> EmptyDict]
    ELSE LET games == answer.games
             expected_games == ExpectedGames(matchups)
             passes == [i \in DOMAIN games |-> GameTotals(games[i], expected_games)]
             oks == {i \in DOMAIN games : passes[i].kind = "ok"}
             keys == {passes[i].game_key : i \in oks}
             last(k) == CHOOSE i \in oks :
                            /\ passes[i].game_key = k
                            /\ \A j \in oks : passes[j].game_key = k => j <= i
         IN IF \E i \in DOMAIN games : passes[i].kind = "raise"
            THEN [raised |-> TRUE, totals |-> EmptyDict]
            ELSE [raised |-> FALSE, totals |-> [k \in keys |-> passes[last(k)].entry]]

(***************************************************************************)
(* src/main.py: the week's matchup analysis as the blender reads it, and   *)
(* get_team_analysis                                                       *)
(***************************************************************************)
\* x or -999, in tenths of a percent: None and 0 both give -999.
OrMinus999(x) == IF x = None \/ Value(x) = 0 THEN -9990 ELSE Value(x)

Max(a, b) == IF a >= b THEN a ELSE b
Min(a, b) == IF a <= b THEN a ELSE b

\* get_sort_key
GetSortKey(game) == Max(OrMinus999(game.away_advantage), OrMinus999(game.home_advantage))

RECURSIVE SortedDescending(_)
\* list.sort(key=get_sort_key, reverse=True): stable, largest key first.
SortedDescending(games) ==
    IF games = <<>> THEN <<>>
    ELSE LET front == SortedDescending(SubSeq(games, 1, Len(games) - 1))
             x == games[Len(games)]
             ahead == SelectSeq(front, LAMBDA g : GetSortKey(g) >= GetSortKey(x))
             behind == SelectSeq(front, LAMBDA g : GetSortKey(g) < GetSortKey(x))
         IN ahead \o <<x>> \o behind

\* analyze_week_matchups, with the data loaded: one game result per matchup,
\* holding the total_team_td_advantage_pct of either side, sorted.
AnalyzeWeekMatchups(matchups, adv) ==
    SortedDescending([i \in DOMAIN matchups |->
        [away_team |-> matchups[i].away_team,
         home_team |-> matchups[i].home_team,
         away_advantage |-> adv[i].away,
         home_advantage |-> adv[i].home]])

\* The advantage in thousandths, left uncapped.
AdvantagePctUncapped(advantage_raw) == advantage_raw

\* max(-0.30, min(0.30, advantage_raw / 100)), in thousandths.
AdvantagePct(advantage_raw) == Max(-MaxAdvantage, Min(MaxAdvantage, advantage_raw))

\* vegas_tds * (1 + w_edge * advantage_pct), in 1/100000 of a hundredth.
ProjectedTds(vegas_tds, advantage_pct) == vegas_tds * (100000 + WEdge * advantage_pct)

\* One game of the output of get_team_analysis.  round(projected, 2) is taken
\* of the exact product; where the product lies exactly between two
\* hundredths the floating-point product may round to either.
CombinedGame(game_data, vegas_game) ==
    LET away_raw == IF game_data.away_advantage = None THEN 0
                    ELSE Value(game_data.away_advantage)
        home_raw == IF game_data.home_advantage = None THEN 0
                    ELSE Value(game_data.home_advantage)
        away_projected == ProjectedTds(vegas_game.away_vegas_tds, AdvantagePct(away_raw))
        home_projected == ProjectedTds(vegas_game.home_vegas_tds, AdvantagePct(home_raw))
    IN [game |-> GameKey(game_data.away_team, game_data.home_team),
        commence_time |-> vegas_game.commence_time,
        bookmaker |-> vegas_game.bookmaker,
        away_team |-> game_data.away_team,
        home_team |-> game_data.home_team,
        away_vegas_tds |-> vegas_game.away_vegas_tds,
        home_vegas_tds |-> vegas_game.home_vegas_tds,
        away_td_advantage_pct |-> away_raw,
        home_td_advantage_pct |-> home_raw,
        away_projected_tds |-> RoundHalfEven(away_projected, 100000, 1),
        home_projected_tds |-> RoundHalfEven(home_projected, 100000, 1)]

\* get_team_analysis.  The week number it reports is modelled by GetTeamAnalysisWeek.
TeamAnalysis(answer, matchups, adv) ==
    LET called == VegasTeamTotals(answer, matchups)
        totals == called.totals
        td_boost_games == AnalyzeWeekMatchups(matchups, adv)
        listed == SelectSeq(td_boost_games,
                            LAMBDA g : GameKey(g.away_team, g.home_team) \in DOMAIN totals)
    IN IF called.raised THEN [op |-> "analysis", error |-> "Analysis failed"]
       ELSE IF totals = EmptyDict
            THEN [op |-> "analysis", error |-> "No Vegas data available"]
            ELSE [op |-> "analysis",
                  error |-> Null,
                  w_edge |-> WEdge,
                  games |-> [i \in DOMAIN listed |->
                               CombinedGame(listed[i],
                                   totals[GameKey(listed[i].away_team, listed[i].home_team)])]]

(***************************************************************************)
(* The week, the odds and the advantages the model draws from.             *)
(***************************************************************************)
\* get_week_matchups(): the two games of the current week.
WeekMatchups ==
    <<[away_team |-> "SF", home_team |-> "KC", week |-> 3],
      [away_team |-> "DAL", home_team |-> "NYG", week |-> 3]>>

FullName(abbr) ==
    CASE abbr = "KC" -> "Kansas City Chiefs"
      [] abbr = "SF" -> "San Francisco 49ers"
      [] abbr = "DAL" -> "Dallas Cowboys"
      [] abbr = "NYG" -> "New York Giants"

Totals(point) ==
    [key |-> "totals", outcomes |-> <<[name |-> "Over", point |-> point],
                                      [name |-> "Under", point |-> point]>>]

Spreads(home, away, home_point) ==
    [key |-> "spreads", outcomes |-> <<[name |-> home, point |-> home_point],
                                       [name |-> away, point |-> 0 - home_point]>>]

Book(key, markets) == [key |-> key, markets |-> markets]

\* What the odds API may list for the matchup: points are in half points
\* (94 is a total of 47, -13 a spread of -6.5).
GameOdds(m) ==
    LET home == FullName(m.home_team)
        away == FullName(m.away_team)
        game(books) == [home_team |-> home, away_team |-> away,
                        commence_time |-> "sunday", bookmakers |-> books]
        one(markets) == game(<<Book("fanduel", markets)>>)
    IN {one(<<Totals(94), Spreads(home, away, -13)>>),
        one(<<Totals(94), Spreads(home, away, 13)>>),
        one(<<Totals(81), Spreads(home, away, 6)>>),
        one(<<Totals(81), Spreads(home, away, 0)>>),
        game(<<Book("pinnacle", <<Totals(94), Spreads(home, away, -13)>>)>>),
        one(<<Spreads(home, away, -13)>>),
        one(<<Totals(94)>>),
        one(<<Totals(94), [key |-> "spreads",
                           outcomes |-> <<[name |-> away, point |-> 13]>>]>>),
        one(<<Totals(94), [key |-> "spreads",
                           outcomes |-> <<[name |-> home, point |-> -13]>>]>>),
        one(<<[key |-> "totals", outcomes |-> <<[name |-> "Under", point |-> 81]>>],
              Spreads(home, away, -6)>>),
        one(<<[key |-> "totals", outcomes |-> <<>>], Spreads(home, away, -13)>>),
        [game(<<Book("fanduel", <<Totals(94), Spreads(home, away, -13)>>)>>)
            EXCEPT !.home_team = "London Monarchs"],
        game(<<Book("draftkings", <<Totals(94), Spreads(home, away, -13)>>),
               Book("fanduel", <<Totals(81), Spreads(home, away, 6)>>)>>),
        game(<<Book("betmgm", <<Totals(94)>>),
               Book("caesars", <<Totals(81), Spreads(home, away, 6)>>)>>),
        game(<<Book("pinnacle", <<Totals(94), Spreads(home, away, -13)>>),
               Book("betrivers", <<Totals(81), Spreads(home, away, -6)>>)>>)}

\* A game of another week, which every answer of the API lists too.
OtherWeekGame ==
    [home_team |-> "Miami Dolphins", away_team |-> "Buffalo Bills",
     commence_time |-> "later",
     bookmakers |-> <<Book("fanduel", <<Totals(90),
                          Spreads("Miami Dolphins", "Buffalo Bills", 5)>>)>>]

\* The answers of the odds API: each matchup of the week listed once or not
\* at all, in the order of the week.
OddsAnswers ==
    LET choice(i) == {<<>>} \cup {<<g>> : g \in GameOdds(WeekMatchups[i])}
    IN {Fetched(a \o b \o <<OtherWeekGame>>) : a \in choice(1), b \in choice(2)}

\* total_team_td_advantage_pct, in tenths of a percent.
AdvantageValues == {None, Some(0), Some(125), Some(-457), Some(1000)}
SecondGameAdvantages ==
    {<<Some(0), Some(0)>>, <<None, Some(300)>>, <<Some(-301), Some(301)>>}

Advantages ==
    {<<[away |-> a, home |-> h], [away |-> p[1], home |-> p[2]]>> :
        a \in AdvantageValues, h \in AdvantageValues, p \in SecondGameAdvantages}

\* The usage service at rest.
AppIdle ==
    /\ pbp_feed = EmptyDataFrame
    /\ nfl_up = TRUE
    /\ player_service = NewPlayerUsageService(pbp_feed, nfl_up)
    /\ usage_result = NoResult
    /\ refresh_log = NoRefresh

\* A call of get_vegas_team_totals.
GetVegasTeamTotals ==
    /\ vegas_totals' = [op |-> "totals",
                        value |-> VegasTeamTotals(games_data, WeekMatchups)]
    /\ UNCHANGED <<games_data, advantage, team_analysis, appVars, calcVars, boostVars>>

\* GET /team-analysis
GetTeamAnalysis ==
    /\ vegas_totals' = [op |-> "totals",
                        value |-> VegasTeamTotals(games_data, WeekMatchups)]
    /\ team_analysis' = TeamAnalysis(games_data, WeekMatchups, advantage)
    /\ UNCHANGED <<games_data, advantage, appVars, calcVars, boostVars>>

InitVegas ==
    /\ games_data \in OddsAnswers \cup {FetchError}
    /\ advantage \in Advantages
    /\ vegas_totals = NoResult
    /\ team_analysis = NoResult
    /\ AppIdle
    /\ CalcIdle
    /\ BoostIdle

NextVegas ==
    \/ GetVegasTeamTotals
    \/ GetTeamAnalysis

SpecVegas == InitVegas /\ [][NextVegas]_vars

(***************************************************************************)
(* src/main.py: NFLTDBoostCalculator's data under a refresh and a read     *)
(* served by two threads.  The data of a load is known by the number of    *)
(* the load that fetched it; 0 is the empty dict and the schedule None.    *)
(* The code takes no lock, so the threads interleave between any two       *)
(* accesses of the calculator's attributes.                                *)
(***************************************************************************)
\* The tables of current_2025 one call of calculate_matchup_boosts reads:
\* offense_rz, defense_rz, offense_all, defense_all.
StatReads == 4

\* NFLTDBoostCalculator(service_instance), by load n: load_data raises where
\* the play-by-play import does, and ignores what load_schedule returns.
NewCalculator(n, pbp_ok, sched_ok) ==
    [made |-> TRUE,
     current_2025 |-> IF pbp_ok THEN n ELSE 0,
     schedule_data |-> IF pbp_ok /\ sched_ok THEN n ELSE 0,
     data_loaded |-> pbp_ok]

Idle == [pc |-> "idle", tag |-> 0]

ReaderAt(pc, schedule_seen, stats_seen, result) ==
    [pc |-> pc, schedule_seen |-> schedule_seen, stats_seen |-> stats_seen,
     result |-> result]

\* TeamAnalysisService.refresh_data with no calculator yet: nothing is
\* loaded and the endpoint answers success.
RefreshWithoutCalculator ==
    /\ refresher.pc = "idle"
    /\ ~td_calculator.made
    /\ refresh_answer' = "success"
    /\ UNCHANGED <<td_calculator, loads, refresher, reader, appVars, vegasVars, boostVars>>

\* POST /refresh: refresh_data enters load_data.
RefreshBegin ==
    /\ refresher.pc = "idle"
    /\ td_calculator.made
    /\ loads < MaxLoads
    /\ loads' = loads + 1
    /\ refresher' = [pc |-> "import", tag |-> loads + 1]
    /\ refresh_answer' = "pending"
    /\ UNCHANGED <<td_calculator, reader, appVars, vegasVars, boostVars>>

\* load_data up to the assignment of self.current_2025; where the import
\* raises, load_data and refresh_data raise and the endpoint answers 500.
LoadDataStats ==
    /\ refresher.pc = "import"
    /\ \E pbp_ok \in BOOLEAN :
          IF pbp_ok
          THEN /\ td_calculator' = [td_calculator EXCEPT !.current_2025 = refresher.tag]
               /\ refresher' = [refresher EXCEPT !.pc = "schedule"]
               /\ UNCHANGED refresh_answer
          ELSE /\ refresher' = Idle
               /\ refresh_answer' = "error"
               /\ UNCHANGED td_calculator
    /\ UNCHANGED <<loads, reader, appVars, vegasVars, boostVars>>

\* load_schedule as load_data calls it, and the return of refresh_data: the
\* schedule is replaced by the new one, or by None where the import fails.
LoadDataSchedule ==
    /\ refresher.pc = "schedule"
    /\ \E sched_ok \in BOOLEAN :
          td_calculator' = [td_calculator EXCEPT
                               !.schedule_data = IF sched_ok THEN refresher.tag ELSE 0]
    /\ refresher' = Idle
    /\ refresh_answer' = "success"
    /\ UNCHANGED <<loads, reader, appVars, vegasVars, boostVars>>

\* GET /team-analysis: _ensure_calculator_initialized.
ReadBegin ==
    /\ reader.pc \in {"idle", "done"}
    /\ IF td_calculator.made
       THEN UNCHANGED <<td_calculator, loads>>
       ELSE /\ loads < MaxLoads
            /\ loads' = loads + 1
            /\ \E pbp_ok \in BOOLEAN, sched_ok \in BOOLEAN :
                  td_calculator' = NewCalculator(loads + 1, pbp_ok, sched_ok)
    /\ reader' = ReaderAt("vegas", <<>>, <<>>, "none")
    /\ UNCHANGED <<refresher, refresh_answer, appVars, vegasVars, boostVars>>

\* get_week_matchups as the reader calls it at from_pc: the schedule is read,
\* after a load_schedule of the reader's own where it is None; no schedule,
\* no matchups, and the read ends with the answer absent.
GetWeekMatchups(from_pc, to_pc, absent) ==
    /\ reader.pc = from_pc
    /\ IF td_calculator.schedule_data # 0
       THEN /\ reader' = [reader EXCEPT
                             !.pc = to_pc,
                             !.schedule_seen = Append(@, td_calculator.schedule_data)]
            /\ UNCHANGED <<td_calculator, loads>>
       ELSE /\ loads < MaxLoads
            /\ loads' = loads + 1
            /\ \E sched_ok \in BOOLEAN :
                  IF sched_ok
                  THEN /\ td_calculator' =
                              [td_calculator EXCEPT !.schedule_data = loads + 1]
                       /\ reader' = [reader EXCEPT
                                        !.pc = to_pc,
                                        !.schedule_seen = Append(@, loads + 1)]
                  ELSE /\ reader' = [reader EXCEPT !.pc = "done", !.result = absent]
                       /\ UNCHANGED td_calculator
    /\ UNCHANGED <<refresher, refresh_answer, appVars, vegasVars, boostVars>>

\* get_vegas_team_totals asks for the matchups of the week.
ReadVegasMatchups == GetWeekMatchups("vegas", "analyze", "No Vegas data available")

\* analyze_week_matchups: load_data of the reader's own where the data is
\* not loaded.
ReadAnalyzeLoad ==
    /\ reader.pc = "analyze"
    /\ IF td_calculator.data_loaded /\ td_calculator.current_2025 # 0
       THEN /\ reader' = [reader EXCEPT !.pc = "matchups"]
            /\ UNCHANGED <<td_calculator, loads>>
       ELSE /\ loads < MaxLoads
            /\ loads' = loads + 1
            /\ \E pbp_ok \in BOOLEAN, sched_ok \in BOOLEAN :
                  IF pbp_ok
                  THEN /\ td_calculator' =
                              [td_calculator EXCEPT
                                  !.current_2025 = loads + 1,
                                  !.schedule_data = IF sched_ok THEN loads + 1 ELSE 0,
                                  !.data_loaded = TRUE]
                       /\ reader' = [reader EXCEPT !.pc = "matchups"]
                  ELSE /\ reader' = [reader EXCEPT
                                        !.pc = "done",
                                        !.result = "No TD boost data available"]
                       /\ UNCHANGED td_calculator
    /\ UNCHANGED <<refresher, refresh_answer, appVars, vegasVars, boostVars>>

\* analyze_week_matchups asks for the matchups of the week.
ReadAnalyzeMatchups == GetWeekMatchups("matchups", "boosts", "No TD boost data available")

\* calculate_matchup_boosts reads a table of self.current_2025; after the
\* last one the analysis is returned.
ReadStats ==
    /\ reader.pc = "boosts"
    /\ LET stats_seen == Append(reader.stats_seen, td_calculator.current_2025)
       IN reader' = IF Len(stats_seen) < StatReads
                    THEN [reader EXCEPT !.stats_seen = stats_seen]
                    ELSE [reader EXCEPT !.stats_seen = stats_seen,
                                        !.pc = "done", !.result = "games"]
    /\ UNCHANGED <<td_calculator, loads, refresher, refresh_answer, appVars, vegasVars, boostVars>>

InitRefresh ==
    /\ VegasIdle
    /\ AppIdle

NextRefresh ==
    \/ RefreshWithoutCalculator
    \/ RefreshBegin
    \/ LoadDataStats
    \/ LoadDataSchedule
    \/ ReadBegin
    \/ ReadVegasMatchups
    \/ ReadAnalyzeLoad
    \/ ReadAnalyzeMatchups
    \/ ReadStats

SpecRefresh == InitRefresh /\ [][NextRefresh]_vars

\* C3: a read never observes a half-updated snapshot: the statistics tables
\* a completed read of the team analysis used (one team's, another's) were
\* all produced by one and the same load, whatever refresh runs beside it.
C3_ReadsSeeOneSnapshot ==
    (reader.pc = "done" /\ reader.result = "games") =>
        \A i \in DOMAIN reader.stats_seen : \A j \in DOMAIN reader.stats_seen :
            reader.stats_seen[i] = reader.stats_seen[j]

(***************************************************************************)
(* Properties of the market totals and of the blended projection.          *)
(***************************************************************************)
ScheduledKeys == {GameKey(m.away_team, m.home_team) : m \in {WeekMatchups[i] : i \in DOMAIN WeekMatchups}}

KeyOfGame(game) == GameKey(TeamAbbr(game.away_team), TeamAbbr(game.home_team))

\* The games of the odds answer that are games of the week.
ScheduledGames ==
    {games_data.games[i] : i \in {j \in DOMAIN games_data.games :
                                    KeyOfGame(games_data.games[j]) \in ScheduledKeys}}

HasBookmaker(game) == SelectedBookmaker(game) # None

\* The game's bookmaker lists no totals market, no spreads market, or no
\* spread point for the home or for the away team.
LacksMarketData(game) ==
    LET book == Value(SelectedBookmaker(game))
        totals_market == MarketOf(book, "totals")
        spreads_market == MarketOf(book, "spreads")
    IN \/ totals_market = None
       \/ spreads_market = None
       \/ SpreadPoint(Value(spreads_market), game.home_team) = None
       \/ SpreadPoint(Value(spreads_market), game.away_team) = None

\* The game's totals market lists at least one point.
HasTotalPoint(game) ==
    Value(MarketOf(Value(SelectedBookmaker(game)), "totals")).outcomes # <<>>

\* Total and spreads of a game that has them, in half points.
TotalOf(game) ==
    LET totals_market == Value(MarketOf(Value(SelectedBookmaker(game)), "totals"))
    IN IF OverPoint(totals_market) = None THEN totals_market.outcomes[1].point
       ELSE Value(OverPoint(totals_market))

SpreadOf(game, name) ==
    Value(SpreadPoint(Value(MarketOf(Value(SelectedBookmaker(game)), "spreads")), name))

Priced(game) == HasBookmaker(game) /\ ~LacksMarketData(game) /\ HasTotalPoint(game)

\* What the last call of get_vegas_team_totals returned, where it returned.
TotalsReturned ==
    IF vegas_totals.op = "totals" /\ ~vegas_totals.value.raised
    THEN vegas_totals.value.totals ELSE EmptyDict

\* The games of the last answer of GET /team-analysis, where it lists games.
AnalysisGames ==
    IF team_analysis.op = "analysis" /\ team_analysis.error = Null
    THEN team_analysis.games ELSE <<>>

AnalysisKeys == {AnalysisGames[i].game : i \in DOMAIN AnalysisGames}

Abs(x) == IF x < 0 THEN 0 - x ELSE x

\* C6: for every game with a total and a non-zero spread, the side whose
\* spread is negative receives the implied points (total + |spread|)/2 and
\* the other side the rest of the total, whichever side is at home; stated
\* on the touchdown counts the implied points are converted to.
C6_FavoriteGetsLargerImpliedPoints ==
    \A game \in ScheduledGames :
        (Priced(game) /\ KeyOfGame(game) \in DOMAIN TotalsReturned) =>
            LET entry == TotalsReturned[KeyOfGame(game)]
                home_spread == SpreadOf(game, game.home_team)
                away_spread == SpreadOf(game, game.away_team)
                favorite(spread) == VegasTds(TotalOf(game) + Abs(spread))
                underdog(spread) == VegasTds(TotalOf(game) - Abs(spread))
            IN /\ home_spread < 0 =>
                    /\ entry.home_vegas_tds = favorite(home_spread)
                    /\ entry.away_vegas_tds = underdog(home_spread)
               /\ away_spread < 0 =>
                    /\ entry.away_vegas_tds = favorite(away_spread)
                    /\ entry.home_vegas_tds = underdog(away_spread)

\* The matchup advantage of a side of a game of the week, None counting 0.
RawAdvantage(game_key, side) ==
    LET i == CHOOSE j \in DOMAIN WeekMatchups :
                 GameKey(WeekMatchups[j].away_team, WeekMatchups[j].home_team) = game_key
    IN IF advantage[i][side] = None THEN 0 ELSE Value(advantage[i][side])

Clamped(raw) == IF raw > 300 THEN 300 ELSE IF raw < -300 THEN -300 ELSE raw

\* baseline * (1 + 0.25 * clamp(raw / 100)) lies within 0.925 and 1.075 times
\* the baseline, and projected is that product to the nearest hundredth.
IsClampedProjection(projected, baseline, raw) ==
    LET product == baseline * (100000 + 25 * Clamped(raw))
    IN /\ 92500 * baseline <= product
       /\ product <= 107500 * baseline
       /\ Abs(100000 * projected - product) <= 50000

\* C7: for every game of the output of get_team_analysis and either side, the
\* projected touchdowns are baseline * (1 + 0.25 * c), c the side's
\* advantage divided by 100 and clamped to [-0.30, 0.30], so they lie between
\* 0.925 and 1.075 times the baseline however large the advantage; the
\* output shows the product to two decimals.
C7_ProjectionWithinClampedBand ==
    \A i \in DOMAIN AnalysisGames :
        LET g == AnalysisGames[i]
        IN /\ IsClampedProjection(g.away_projected_tds, g.away_vegas_tds,
                                  RawAdvantage(g.game, "away"))
           /\ IsClampedProjection(g.home_projected_tds, g.home_vegas_tds,
                                  RawAdvantage(g.game, "home"))

\* An output game whose advantages lie beyond the clamp on either side.
C7_Witness ==
    \E i \in DOMAIN AnalysisGames :
        LET g == AnalysisGames[i]
        IN /\ RawAdvantage(g.game, "away") > 300
           /\ RawAdvantage(g.game, "home") < -300
           /\ 100 * g.away_projected_tds > 107 * g.away_vegas_tds
           /\ 100 * g.home_projected_tds < 93 * g.home_vegas_tds

\* C8: a game of the week whose total or spread is missing appears neither
\* in the output of get_vegas_team_totals nor in that of get_team_analysis,
\* and every game of either output is priced from a total and a spread the
\* answer lists, none from a default.
C8_GamesMissingMarketDataSkipped ==
    /\ \A game \in ScheduledGames :
          (HasBookmaker(game) /\ LacksMarketData(game)) =>
              /\ KeyOfGame(game) \notin DOMAIN TotalsReturned
              /\ KeyOfGame(game) \notin AnalysisKeys
    /\ \A k \in DOMAIN TotalsReturned \cup AnalysisKeys :
          \E game \in ScheduledGames :
              /\ KeyOfGame(game) = k
              /\ Priced(game)
              /\ LET home_spread == SpreadOf(game, game.home_team)
                     home_tds == VegasTds(HomeImpliedPoints(TotalOf(game), home_spread))
                     away_tds == VegasTds(AwayImpliedPoints(TotalOf(game), home_spread))
                 IN /\ k \in DOMAIN TotalsReturned =>
                          /\ TotalsReturned[k].home_vegas_tds = home_tds
                          /\ TotalsReturned[k].away_vegas_tds = away_tds
                    /\ \A i \in DOMAIN AnalysisGames :
                          AnalysisGames[i].game = k =>
                              /\ AnalysisGames[i].home_vegas_tds = home_tds
                              /\ AnalysisGames[i].away_vegas_tds = away_tds

\* The analysis lists one game of the week and has skipped the other, whose
\* spreads market has no point for the home team.
C8_Witness ==
    /\ Len(AnalysisGames) = 1
    /\ \E game \in ScheduledGames :
          /\ HasBookmaker(game)
          /\ MarketOf(Value(SelectedBookmaker(game)), "totals") # None
          /\ MarketOf(Value(SelectedBookmaker(game)), "spreads") # None
          /\ SpreadPoint(Value(MarketOf(Value(SelectedBookmaker(game)), "spreads")),
                         game.home_team) = None
          /\ KeyOfGame(game) \notin AnalysisKeys

\* The games the answer of GET /team-analysis says anything about: those of
\* its games list; an answer 'No Vegas data available' speaks of them all.
GamesReported ==
    IF team_analysis.op # "analysis" THEN {}
    ELSE IF team_analysis.error = "No Vegas data available" THEN ScheduledKeys
    ELSE AnalysisKeys

\* C9: the result of get_team_analysis, where the analysis has not failed,
\* reports every game of the week that was skipped for missing market data
\* as unavailable.
C9_SkippedGamesReportedUnavailable ==
    (team_analysis.op = "analysis" /\ team_analysis.error # "Analysis failed") =>
        \A game \in ScheduledGames :
            (~HasBookmaker(game) \/ LacksMarketData(game)) =>
                KeyOfGame(game) \in GamesReported

\* C10: a fault raised while one game of the odds answer is parsed does not
\* abort the batch: every other game of the week that is priced is still
\* returned by get_vegas_team_totals and by get_team_analysis.
C10_GameFaultsIsolated ==
    /\ vegas_totals.op = "totals" =>
          \A game \in ScheduledGames :
              Priced(game) => KeyOfGame(game) \in DOMAIN TotalsReturned
    /\ team_analysis.op = "analysis" =>
          \A game \in ScheduledGames :
              Priced(game) => KeyOfGame(game) \in AnalysisKeys

\* total_team_td_advantage_pct of a side of a game of the week as the
\* matchup analysis gives it: None where the team has no sample.
AdvantageGiven(game_key, side) ==
    LET i == CHOOSE j \in DOMAIN WeekMatchups :
                 GameKey(WeekMatchups[j].away_team, WeekMatchups[j].home_team) = game_key
    IN advantage[i][side]

\* C11: where a side's total matchup advantage is absent, the game entry of
\* get_team_analysis does not present the advantage as the value 0 (the
\* entry has no other field that could mark the absence).
C11_AbsentAdvantageNotShownAsZero ==
    \A i \in DOMAIN AnalysisGames :
        LET g == AnalysisGames[i]
        IN /\ AdvantageGiven(g.game, "away") = None => g.away_td_advantage_pct # 0
           /\ AdvantageGiven(g.game, "home") = None => g.home_td_advantage_pct # 0

(***************************************************************************)
(* Properties of the share computations.                                   *)
(***************************************************************************)
\* The touchdown plays of the team, the whole season.
TeamTouchdowns(pbp, team) ==
    SelectSeq(pbp, LAMBDA p : p.posteam = team /\ p.touchdown = 1)

\* The red-zone plays of the team that lie in drives of 2+ such plays.
RzWorkingSet(pbp, team) == Concat(FilteredPlays(RzData(pbp, team)))

\* The display names the plays list.
NamesIn(plays) ==
    ({plays[i].rusher_player_name : i \in DOMAIN plays}
        \cup {plays[i].receiver_player_name : i \in DOMAIN plays}) \ {Null}

\* The rushes of the plays by a known rusher shown as n, and the passes to a
\* known receiver shown as n.
RushesShownAs(plays, n) ==
    LET rushes == SelectSeq(plays, LAMBDA p : p.rush = 1)
    IN {i \in DOMAIN rushes :
          /\ rushes[i].rusher_player_id # Null
          /\ PlayerName(rushes, "rusher_player_id", "rusher_player_name",
                        rushes[i].rusher_player_id) = n}

PassesShownAs(plays, n) ==
    LET passes == SelectSeq(plays, LAMBDA p : p.pass = 1)
    IN {i \in DOMAIN passes :
          /\ passes[i].receiver_player_id # Null
          /\ PlayerName(passes, "receiver_player_id", "receiver_player_name",
                        passes[i].receiver_player_id) = n}

CreditedCount(plays, n) ==
    Cardinality(RushesShownAs(plays, n)) + Cardinality(PassesShownAs(plays, n))

CreditedPlays(plays) ==
    LET shown(n) == CreditedCount(plays, n)
    IN SumOver(NamesIn(plays), [n \in NamesIn(plays) |-> shown(n)])

Numerators(shares) == SumOver(DOMAIN shares, [n \in DOMAIN shares |-> shares[n][1]])

\* The plays of a working set whose rusher (of a rush) or receiver (of a
\* pass) has a null id.
NullIdentityPlays(plays) ==
    {i \in DOMAIN plays : \/ plays[i].rush = 1 /\ plays[i].rusher_player_id = Null
                          \/ plays[i].pass = 1 /\ plays[i].receiver_player_id = Null}

\* C13: a play whose rusher id (of a rush) or receiver id (of a pass) is null
\* is added to no player's count and to no entry of the usage shares or of
\* the touchdown shares: the counts of the entries add up to the plays with
\* a known id, and every entry stands for a known id.
C13_NullIdentityExcluded ==
    \A d \in ReadUsage :
        LET rz == RzWorkingSet(player_service.pbp_data, d.team)
            tds == TeamTouchdowns(player_service.pbp_data, d.team)
        IN /\ Numerators(d.rz_usage) = CreditedPlays(rz)
           /\ Numerators(d.td_shares) = CreditedPlays(tds)
           /\ Numerators(d.rz_usage) + Cardinality(NullIdentityPlays(rz)) <= Len(rz)
           /\ Numerators(d.td_shares) + Cardinality(NullIdentityPlays(tds)) <= Len(tds)
           /\ \A n \in DOMAIN d.rz_usage : CreditedCount(rz, n) > 0
           /\ \A n \in DOMAIN d.td_shares : CreditedCount(tds, n) > 0

\* A read gave usage shares over a working set that holds a rush whose rusher
\* id is null though its name is not.
C13_Witness ==
    \E d \in ReadUsage :
        LET rz == RzWorkingSet(player_service.pbp_data, d.team)
        IN /\ d.rz_usage # EmptyDict
           /\ \E i \in NullIdentityPlays(rz) : rz[i].rusher_player_name # Null

\* The dataset without the plays whose game_id or drive id is null.
WithDriveKeys(pbp) == SelectSeq(pbp, HasDriveKey)

\* The red-zone plays of the team that name no drive.
KeylessRzPlays(pbp, team) ==
    {i \in DOMAIN pbp : IsRzPlay(pbp[i], team) /\ ~HasDriveKey(pbp[i])}

\* C14: a play whose game_id or drive id is null belongs to no drive group:
\* the usage shares and the red-zone statistics are those of the dataset
\* without such plays, so plays with a null key never form a group of their
\* own that passes the 2-play floor.
C14_NullKeysNotGrouped ==
    /\ \A d \in ReadUsage :
          LET pbp == player_service.pbp_data
              keyed == {i \in DOMAIN pbp : IsRzPlay(pbp[i], d.team) /\ HasDriveKey(pbp[i])}
          IN /\ d.rz_usage = GetPlayerRzUsageShare(
                                 [pbp_data |-> WithDriveKeys(pbp), data_loaded |-> TRUE],
                                 d.team)
             /\ \A n \in DOMAIN d.rz_usage : d.rz_usage[n][2] <= Cardinality(keyed)
    /\ rz_stats.op = "rz_stats" =>
          /\ rz_stats.offense_rz = RzStats(WithDriveKeys(pbp_feed), "posteam")
          /\ rz_stats.defense_rz = RzStats(WithDriveKeys(pbp_feed), "defteam")

\* The usage shares of a team were read and the red-zone statistics computed
\* over a dataset in which two red-zone plays of the team name no drive, and
\* neither gave the team a drive.
C14_Witness ==
    /\ rz_stats.op = "rz_stats"
    /\ \E d \in ReadUsage :
          /\ \E i \in KeylessRzPlays(pbp_feed, d.team) :
                \E j \in KeylessRzPlays(pbp_feed, d.team) :
                    /\ i # j
                    /\ pbp_feed[i].game_id = pbp_feed[j].game_id
                    /\ pbp_feed[i].fixed_drive = pbp_feed[j].fixed_drive
          /\ d.rz_usage = EmptyDict
          /\ d.team \notin DOMAIN rz_stats.offense_rz

\* The four conditions a play meets to enter the red-zone working set of a
\* team, each spelled on the play's own columns.
OwnPlay(p, team) == p.posteam = team
InsideTwenty(p) == p.yardline_100 \in 0..20
RushOrPass(p) == p.rush + p.pass >= 1
TwoPointAttempt(p) == p.two_point_attempt = 1

MeetsRzConditions(p, team) ==
    OwnPlay(p, team) /\ InsideTwenty(p) /\ RushOrPass(p) /\ ~TwoPointAttempt(p)

\* C15: the red-zone working set of a team holds only the team's own plays
\* at or inside the 20 that are rushes or passes and no two-point attempts:
\* the shares are those of the dataset cut down to such plays, and every
\* denominator counts such plays only.
C15_WorkingSetConditions ==
    \A d \in ReadUsage :
        LET pbp == player_service.pbp_data
            meeting == SelectSeq(pbp, LAMBDA p : MeetsRzConditions(p, d.team))
            working == RzWorkingSet(pbp, d.team)
        IN /\ \A i \in DOMAIN working : MeetsRzConditions(working[i], d.team)
           /\ d.rz_usage = GetPlayerRzUsageShare(
                               [pbp_data |-> meeting, data_loaded |-> TRUE], d.team)
           /\ \A n \in DOMAIN d.rz_usage : d.rz_usage[n][2] <= Len(meeting)

\* A team's shares were read on a dataset where a two-point attempt of the
\* team sits in a drive of two qualifying plays, and the shares are over the
\* two plays.
C15_Witness ==
    \E d \in ReadUsage :
        LET pbp == player_service.pbp_data
        IN /\ \E i \in DOMAIN pbp :
                 /\ OwnPlay(pbp[i], d.team) /\ InsideTwenty(pbp[i]) /\ RushOrPass(pbp[i])
                 /\ TwoPointAttempt(pbp[i])
           /\ d.rz_usage # EmptyDict
           /\ \A n \in DOMAIN d.rz_usage : d.rz_usage[n][2] = 2

\* The last play of the sequence that names the id in the column, if its
\* display name is known.
LatestNames(plays, idcol, namecol) ==
    {plays[i][namecol] : i \in {j \in DOMAIN plays :
        /\ plays[j][idcol] # Null
        /\ plays[j][namecol] # Null
        /\ \A k \in DOMAIN plays : k > j => plays[k][idcol] # plays[j][idcol]}}

Rushes(plays) == SelectSeq(plays, LAMBDA p : p.rush = 1)
Passes(plays) == SelectSeq(plays, LAMBDA p : p.pass = 1)

\* C16: every player id of the usage shares and of the touchdown shares is
\* shown under the display name of its latest play, in the order the
\* computation reads the plays.
C16_LatestDisplayNameUsed ==
    \A d \in ReadUsage :
        LET working == RzWorkingSet(player_service.pbp_data, d.team)
            tds == TeamTouchdowns(player_service.pbp_data, d.team)
        IN /\ LatestNames(Rushes(working), "rusher_player_id", "rusher_player_name")
                 \subseteq DOMAIN d.rz_usage
           /\ LatestNames(Passes(working), "receiver_player_id", "receiver_player_name")
                 \subseteq DOMAIN d.rz_usage
           /\ LatestNames(Rushes(tds), "rusher_player_id", "rusher_player_name")
                 \subseteq DOMAIN d.td_shares
           /\ LatestNames(Passes(tds), "receiver_player_id", "receiver_player_name")
                 \subseteq DOMAIN d.td_shares

\* The teams the plays of the dataset name as the team in possession.
PossessionTeams(pbp) == {pbp[i].posteam : i \in DOMAIN pbp} \ {Null}

\* The team has no drive of 2+ qualifying red-zone plays in the service's
\* data (which covers no data loaded and no red-zone play at all).
NoQualifyingDrive(svc, team) ==
    ~svc.data_loaded \/ RzWorkingSet(svc.pbp_data, team) = <<>>

\* The team has no touchdown play in the service's data.
NoTouchdowns(svc, team) ==
    ~svc.data_loaded \/ TeamTouchdowns(svc.pbp_data, team) = <<>>

\* The answer for a team with nothing to report.
IsEmptyTeamResult(d) ==
    /\ d.rz_usage = EmptyDict
    /\ d.td_shares = EmptyDict
    /\ d.players = <<>>
    /\ d.total_players = 0

\* C17: a team without a qualifying drive has empty usage shares, a team
\* without touchdowns has empty touchdown shares, and a team with neither
\* gets the empty result structure; a read of all teams answers for every
\* team of the dataset, each with the result it gets on its own.
C17_NoQualifyingPlaysGivesEmptyResult ==
    /\ \A d \in ReadUsage :
          /\ NoQualifyingDrive(player_service, d.team) => d.rz_usage = EmptyDict
          /\ NoTouchdowns(player_service, d.team) => d.td_shares = EmptyDict
          /\ NoQualifyingDrive(player_service, d.team) /\ NoTouchdowns(player_service, d.team)
                => IsEmptyTeamResult(d)
    /\ usage_result.op = "all" /\ ~usage_result.error =>
          /\ DOMAIN usage_result.teams = PossessionTeams(player_service.pbp_data)
          /\ \A t \in DOMAIN usage_result.teams :
                /\ usage_result.teams[t].team = t
                /\ usage_result.teams[t].rz_usage
                       = GetPlayerRzUsageShare(player_service, t)
                /\ usage_result.teams[t].td_shares = GetPlayerTdShare(player_service, t)

\* All teams were read; one team has neither a qualifying drive nor a
\* touchdown and got the empty structure, another got its shares.
C17_Witness ==
    /\ usage_result.op = "all" /\ ~usage_result.error
    /\ \E t, u \in DOMAIN usage_result.teams :
          /\ NoQualifyingDrive(player_service, t) /\ NoTouchdowns(player_service, t)
          /\ \A i \in DOMAIN player_service.pbp_data :
                player_service.pbp_data[i].posteam = t
                    => player_service.pbp_data[i].yardline_100 > 20
          /\ IsEmptyTeamResult(usage_result.teams[t])
          /\ usage_result.teams[u].rz_usage # EmptyDict

(***************************************************************************)
(* src/main.py: NFLTDBoostCalculator.calculate_matchup_boosts              *)
(*                                                                         *)
(* Rates and percentage changes are in tenths of a percent.  matchup_stats *)
(* holds what self.current_2025 has for the two teams of the matchup: for  *)
(* each of the four tables the team's rate, or None where the team is not  *)
(* in the table.                                                           *)
(***************************************************************************)
\* The current rate taken as a percentage of the baseline, the baseline not
\* subtracted.
PctOfBaseline(current, avg) ==
    IF avg > 0 THEN RoundHalfEven(current * 100, avg, 10) ELSE 0

\* round(((current - avg) / avg * 100) if avg > 0 else 0, 1)
PctChange(current, avg) ==
    IF avg > 0 THEN RoundHalfEven((current - avg) * 100, avg, 10) ELSE 0

\* One of the four comparisons: None where the team has no sample.
PctChangeVsLeague(sample, avg) ==
    IF sample = None THEN None ELSE Some(PctChange(Value(sample), avg))

\* round(x / 2, 1) for x a sum of values with one decimal: x / 2 is a float
\* next to the decimal x.x5 when x is odd in tenths, and round() gives the
\* neighbour that float is nearer to; both neighbours are possible results.
RoundedHalf(x) ==
    IF x % 2 = 0 THEN {x \div 2} ELSE {x \div 2, x \div 2 + 1}

\* The single available change halved instead of taken as it is.
CombinedHalvingSingle(rz_pct, all_pct) ==
    IF rz_pct # None /\ all_pct # None
    THEN {Some(m) : m \in RoundedHalf(Value(rz_pct) + Value(all_pct))}
    ELSE IF rz_pct # None THEN {Some(m) : m \in RoundedHalf(Value(rz_pct))}
    ELSE IF all_pct # None THEN {Some(m) : m \in RoundedHalf(Value(all_pct))}
    ELSE {None}

\* offense_combined_pct_change / defense_combined_pct_change: the values the
\* branch on the two changes can give.
CombinedPctChange(rz_pct, all_pct) ==
    IF rz_pct # None /\ all_pct # None
    THEN {Some(m) : m \in RoundedHalf(Value(rz_pct) + Value(all_pct))}
    ELSE IF rz_pct # None THEN {rz_pct}
    ELSE IF all_pct # None THEN {all_pct}
    ELSE {None}

\* The single available side taken as it is instead of halved.
TotalAdvantageKeepingSingle(off_combined, def_combined) ==
    IF off_combined # None /\ def_combined # None
    THEN {Some(m) : m \in RoundedHalf(Value(off_combined) + Value(def_combined))}
    ELSE IF off_combined # None THEN {off_combined}
    ELSE IF def_combined # None THEN {def_combined}
    ELSE {None}

\* total_team_td_advantage_pct: the values the branch on the two combined
\* changes can give.
TotalAdvantage(off_combined, def_combined) ==
    IF off_combined # None /\ def_combined # None
    THEN {Some(m) : m \in RoundedHalf(Value(off_combined) + Value(def_combined))}
    ELSE IF off_combined # None THEN {Some(m) : m \in RoundedHalf(Value(off_combined))}
    ELSE IF def_combined # None THEN {Some(m) : m \in RoundedHalf(Value(def_combined))}
    ELSE {None}

\* The answers calculate_matchup_boosts can give on loaded data.
MatchupBoosts(stats, averages) ==
    LET off_rz == PctChangeVsLeague(stats.offense_rz, averages.rz_scoring)
        def_rz == PctChangeVsLeague(stats.defense_rz, averages.rz_allow)
        off_all == PctChangeVsLeague(stats.offense_all, averages.all_drives_scoring)
        def_all == PctChangeVsLeague(stats.defense_all, averages.all_drives_allow)
        answer(o, d, t) ==
            [op |-> "boosts", error |-> FALSE,
             offense_rz_pct_change_vs_league |-> off_rz,
             defense_rz_pct_change_vs_league |-> def_rz,
             offense_all_drives_pct_change_vs_league |-> off_all,
             defense_all_drives_pct_change_vs_league |-> def_all,
             offense_combined_pct_change |-> o,
             defense_combined_pct_change |-> d,
             total_team_td_advantage_pct |-> t]
    IN UNION {UNION {{answer(o, d, t) : t \in TotalAdvantage(o, d)} :
                        d \in CombinedPctChange(def_rz, def_all)} :
                 o \in CombinedPctChange(off_rz, off_all)}

\* What load_data failing leaves calculate_matchup_boosts to answer.
CouldNotLoad == [op |-> "boosts", error |-> TRUE]

\* calculate_matchup_boosts(offense_team, defense_team): data that is not
\* loaded is loaded first, which may fail and end the call; the answer is
\* computed from the current statistics and the league averages.
CalculateMatchupBoosts ==
    /\ \E load_ok \in BOOLEAN :
          IF ~matchup_stats.data_loaded /\ ~load_ok
          THEN /\ matchup_boosts' = CouldNotLoad
               /\ UNCHANGED matchup_stats
          ELSE /\ matchup_stats' = [matchup_stats EXCEPT !.data_loaded = TRUE]
               /\ matchup_boosts' \in MatchupBoosts(matchup_stats, league_averages)
    /\ UNCHANGED <<appVars, vegasVars, calcVars, rz_stats, league_averages, allocation, week_report>>

\* The rates a team can have in a table of the current season, in tenths of
\* a percent.
Rates == {0, 233, 333, 590, 1000}

Samples == {None} \cup {Some(r) : r \in Rates}

\* The 2024 league averages with the allow baselines at zero.
ZeroAllowAverages ==
    [LeagueAverages2024 EXCEPT !.rz_allow = 0, !.all_drives_allow = 0]

\* The inputs of the percentage changes: the baselines of the source and
\* baselines of zero, which the expression guards against.
Baselines == {LeagueAverages2024, ZeroAllowAverages}

(***************************************************************************)
(* SpecBoosts: calculate_matchup_boosts over every combination of present  *)
(* and absent samples of a matchup.                                        *)
(***************************************************************************)
InitBoosts ==
    /\ matchup_stats \in [data_loaded : BOOLEAN,
                          offense_rz : Samples, defense_rz : Samples,
                          offense_all : Samples, defense_all : Samples]
    /\ league_averages \in Baselines
    /\ matchup_boosts = NoResult
    /\ allocation = NoResult
    /\ week_report = NoResult
    /\ rz_stats = NoResult
    /\ AppIdle
    /\ CalcIdle
    /\ MarketIdle

NextBoosts == CalculateMatchupBoosts

SpecBoosts == InitBoosts /\ [][NextBoosts]_vars

\* The matchup was analysed on loaded data.
Analysed == matchup_boosts.op = "boosts" /\ ~matchup_boosts.error

\* The four comparisons of the analysis: the team's sample, its baseline,
\* and the percentage change that was answered.
Comparisons ==
    {[sample |-> matchup_stats.offense_rz, avg |-> league_averages.rz_scoring,
      out |-> matchup_boosts.offense_rz_pct_change_vs_league],
     [sample |-> matchup_stats.defense_rz, avg |-> league_averages.rz_allow,
      out |-> matchup_boosts.defense_rz_pct_change_vs_league],
     [sample |-> matchup_stats.offense_all, avg |-> league_averages.all_drives_scoring,
      out |-> matchup_boosts.offense_all_drives_pct_change_vs_league],
     [sample |-> matchup_stats.defense_all, avg |-> league_averages.all_drives_allow,
      out |-> matchup_boosts.defense_all_drives_pct_change_vs_league]}

\* out is (current - avg) / avg * 100 to the nearest tenth of a percent.
IsPctChange(out, current, avg) ==
    2 * Abs(out * avg - (current - avg) * 1000) <= avg

\* C18: each of the four percentage changes is (current - baseline) /
\* baseline * 100 of the team's current rate, to the nearest tenth; it is
\* None when the team has no sample of the rate, and 0 when the baseline
\* is 0.
C18_PctChangeVsBaseline ==
    Analysed =>
        \A c \in Comparisons :
            /\ c.sample = None => c.out = None
            /\ c.sample # None /\ c.avg = 0 => c.out = Some(0)
            /\ c.sample # None /\ c.avg > 0 =>
                  /\ c.out # None
                  /\ IsPctChange(Value(c.out), Value(c.sample), c.avg)

\* An analysis in which one comparison has no sample, one has a baseline of
\* zero, and one gave a change other than 0.
C18_Witness ==
    /\ Analysed
    /\ \E c \in Comparisons : c.sample = None /\ c.out = None
    /\ \E c \in Comparisons : c.sample # None /\ c.avg = 0 /\ c.out = Some(0)
    /\ \E c \in Comparisons :
          c.sample # None /\ c.avg > 0 /\ c.out # None /\ Value(c.out) # 0

\* m is the arithmetic mean of a and b to the nearest tenth of a percent.
IsMean(m, a, b) == Abs(2 * m - (a + b)) <= 1

\* combined follows the rule of the combined scores on the two changes.
FollowsCombinedRule(combined, rz_pct, all_pct) ==
    /\ rz_pct # None /\ all_pct # None =>
          combined # None /\ IsMean(Value(combined), Value(rz_pct), Value(all_pct))
    /\ rz_pct # None /\ all_pct = None => combined = rz_pct
    /\ rz_pct = None /\ all_pct # None => combined = all_pct
    /\ rz_pct = None /\ all_pct = None => combined = None

\* C19: the combined offense score is the mean of the offense red-zone and
\* all-drives percentage changes when both are there, the one that is there
\* when only one is, and None when neither is; the combined defense score
\* follows the same rule on the defense changes.
C19_CombinedScores ==
    Analysed =>
        /\ FollowsCombinedRule(matchup_boosts.offense_combined_pct_change,
                               matchup_boosts.offense_rz_pct_change_vs_league,
                               matchup_boosts.offense_all_drives_pct_change_vs_league)
        /\ FollowsCombinedRule(matchup_boosts.defense_combined_pct_change,
                               matchup_boosts.defense_rz_pct_change_vs_league,
                               matchup_boosts.defense_all_drives_pct_change_vs_league)

\* An analysis whose offense has both changes, different from each other,
\* and whose defense has the all-drives change only, other than 0.
C19_Witness ==
    /\ Analysed
    /\ matchup_boosts.offense_rz_pct_change_vs_league # None
    /\ matchup_boosts.offense_all_drives_pct_change_vs_league # None
    /\ matchup_boosts.offense_rz_pct_change_vs_league
          # matchup_boosts.offense_all_drives_pct_change_vs_league
    /\ matchup_boosts.defense_rz_pct_change_vs_league = None
    /\ matchup_boosts.defense_all_drives_pct_change_vs_league # None
    /\ matchup_boosts.defense_all_drives_pct_change_vs_league # Some(0)
    /\ matchup_boosts.defense_combined_pct_change
          = matchup_boosts.defense_all_drives_pct_change_vs_league

\* C20: the total advantage is the mean of the combined offense and the
\* combined defense scores when both are there, half of the side that is
\* there when exactly one is, and None when neither is.
C20_TotalAdvantage ==
    Analysed =>
        LET off_combined == matchup_boosts.offense_combined_pct_change
            def_combined == matchup_boosts.defense_combined_pct_change
            total == matchup_boosts.total_team_td_advantage_pct
        IN /\ off_combined # None /\ def_combined # None =>
                 total # None /\ IsMean(Value(total), Value(off_combined), Value(def_combined))
           /\ off_combined # None /\ def_combined = None =>
                 total # None /\ IsMean(Value(total), Value(off_combined), 0)
           /\ off_combined = None /\ def_combined # None =>
                 total # None /\ IsMean(Value(total), Value(def_combined), 0)
           /\ off_combined = None /\ def_combined = None => total = None

\* An analysis with a combined offense score of more than a tenth either
\* way and no combined defense score: the total is half the offense score
\* and not the score itself.
C20_Witness ==
    /\ Analysed
    /\ matchup_boosts.offense_combined_pct_change # None
    /\ Abs(Value(matchup_boosts.offense_combined_pct_change)) > 1
    /\ matchup_boosts.defense_combined_pct_change = None
    /\ matchup_boosts.total_team_td_advantage_pct # None
    /\ matchup_boosts.total_team_td_advantage_pct
          # matchup_boosts.offense_combined_pct_change

(***************************************************************************)
(* Scenarios of the market baseline and of the shares.                     *)
(***************************************************************************)
\* The game of the answer is priced at a total of 47 with the home team
\* favored by 6.5 (94 and -13 half points).
TotalFortySevenHomeBySixAndHalf(game) ==
    /\ Priced(game)
    /\ TotalOf(game) = 94
    /\ SpreadOf(game, game.home_team) = -13

\* tds, in hundredths, is points * 0.75 / 7 to the nearest hundredth, points
\* given in hundredths of a point.
IsBaselineOf(tds, points) == 2 * Abs(2800 * tds - 300 * points) <= 2800

\* C21: for a game with market total 47 and home spread -6.5 the home side
\* is priced from 26.75 implied points and the away side from 20.25: the
\* home market baseline is 26.75 * 0.75 / 7 touchdowns (2.87 to two
\* decimals) and the away one 20.25 * 0.75 / 7; and where the home
\* advantage is 0 the projected touchdowns equal the baseline.
C21_ScenarioFortySevenMinusSixAndHalf ==
    \A game \in ScheduledGames :
        TotalFortySevenHomeBySixAndHalf(game) =>
            /\ KeyOfGame(game) \in DOMAIN TotalsReturned =>
                  LET entry == TotalsReturned[KeyOfGame(game)]
                  IN /\ IsBaselineOf(entry.home_vegas_tds, 2675)
                     /\ entry.home_vegas_tds = 287
                     /\ IsBaselineOf(entry.away_vegas_tds, 2025)
            /\ \A i \in DOMAIN AnalysisGames :
                  LET g == AnalysisGames[i]
                  IN g.game = KeyOfGame(game) =>
                        /\ IsBaselineOf(g.home_vegas_tds, 2675)
                        /\ IsBaselineOf(g.away_vegas_tds, 2025)
                        /\ AdvantageGiven(g.game, "home") = Some(0)
                              => g.home_projected_tds = g.home_vegas_tds

\* The analysis lists a game priced at 47 and -6.5 whose home advantage is
\* 0, with a home baseline of 2.87 touchdowns and the same projection.
C21_Witness ==
    \E game \in ScheduledGames :
        /\ TotalFortySevenHomeBySixAndHalf(game)
        /\ \E i \in DOMAIN AnalysisGames :
              LET g == AnalysisGames[i]
              IN /\ g.game = KeyOfGame(game)
                 /\ AdvantageGiven(g.game, "home") = Some(0)
                 /\ g.home_vegas_tds = 287
                 /\ g.home_projected_tds = 287

\* The plays of the team in the dataset.
PlaysOf(pbp, team) == SelectSeq(pbp, LAMBDA p : p.posteam = team)

\* The team's only plays are one drive of exactly 2 red-zone rushes by one
\* player, neither a touchdown.
OneDriveOfTwoRushes(pbp, team) ==
    LET own == PlaysOf(pbp, team)
    IN /\ Len(own) = 2
       /\ \A i \in DOMAIN own :
             /\ MeetsRzConditions(own[i], team)
             /\ own[i].rush = 1 /\ own[i].pass = 0
             /\ own[i].touchdown = 0
             /\ own[i].rusher_player_id # Null
             /\ own[i].rusher_player_name # Null
             /\ HasDriveKey(own[i])
       /\ own[1].game_id = own[2].game_id
       /\ own[1].fixed_drive = own[2].fixed_drive
       /\ own[1].rusher_player_id = own[2].rusher_player_id

\* C22: for a team whose only plays are one drive of exactly 2 red-zone
\* rushes by the same player without a touchdown, get_team_player_usage
\* lists that player alone, with a red-zone usage share of 1.0 (10000
\* ten-thousandths) and a touchdown share of 0.
C22_TwoRushDriveGivesFullShare ==
    \A d \in ReadUsage :
        OneDriveOfTwoRushes(player_service.pbp_data, d.team) =>
            /\ d.total_players = 1
            /\ Len(d.players) = 1
            /\ d.players[1].player
                  \in NamesIn(PlaysOf(player_service.pbp_data, d.team))
            /\ d.players[1].rz_usage_share = 10000
            /\ d.players[1].td_share = 0

\* A team of such a single drive was read and its player listed with the
\* full usage share.
C22_Witness ==
    \E d \in ReadUsage :
        /\ OneDriveOfTwoRushes(player_service.pbp_data, d.team)
        /\ Len(d.players) = 1
        /\ d.players[1].rz_usage_share = 10000

(***************************************************************************)
(* src/main.py: NFLTDBoostCalculator.load_data and the analyses after it.  *)
(*                                                                         *)
(* rz_stats holds self.current_2025, league_averages self.league_averages  *)
(* ({} until the first load_data), matchup_stats the calculator's          *)
(* data_loaded flag and what the last analysis read for its two teams.     *)
(***************************************************************************)
\* calculate_all_drives_stats for the teams of one column: every drive that
\* names its game, team and drive id (groupby leaves out null keys), and the
\* drives that hold a touchdown; the rate in tenths of a percent.
AllDrivesStats(df, teamcol) ==
    LET keyed == SelectSeq(df, LAMBDA p : /\ p.game_id # Null
                                          /\ p[teamcol] # Null
                                          /\ p.fixed_drive # Null)
        teams == {keyed[i][teamcol] : i \in DOMAIN keyed}
        drives(t) == {<<keyed[i].game_id, keyed[i].fixed_drive>> :
                         i \in {j \in DOMAIN keyed : keyed[j][teamcol] = t}}
        scored(t) == {k \in drives(t) :
                         \E i \in DOMAIN keyed : /\ keyed[i][teamcol] = t
                                                 /\ keyed[i].game_id = k[1]
                                                 /\ keyed[i].fixed_drive = k[2]
                                                 /\ keyed[i].touchdown = 1}
    IN [t \in teams |->
          [drives |-> Cardinality(drives(t)),
           tds |-> Cardinality(scored(t)),
           rate |-> RoundHalfEven(Cardinality(scored(t)) * 100,
                                  Cardinality(drives(t)), 10)]]

\* self.current_2025 as load_data assigns it.
CurrentStats(df) ==
    [op |-> "rz_stats",
     offense_rz |-> RzStats(df, "posteam"),
     defense_rz |-> RzStats(df, "defteam"),
     offense_all |-> AllDrivesStats(df, "posteam"),
     defense_all |-> AllDrivesStats(df, "defteam")]

\* A calculator that has not run load_data yet.
NotLoadedYet ==
    [data_loaded |-> FALSE, offense_team |-> Null, defense_team |-> Null,
     offense_rz |-> None, defense_rz |-> None, offense_all |-> None, defense_all |-> None]

\* The new tables laid over the old ones: a team the new plays do not give
\* an entry keeps its old one.
MergedOver(old, new) ==
    [t \in DOMAIN old \cup DOMAIN new |-> IF t \in DOMAIN new THEN new[t] ELSE old[t]]

LoadDataMerging ==
    LET first == league_averages = EmptyDict
        new == CurrentStats(pbp_feed)
    IN /\ league_averages' = LeagueAverages2024
       /\ IF nfl_up
          THEN rz_stats' = IF rz_stats.op = "none" THEN new
                           ELSE [op |-> "rz_stats",
                                 offense_rz |-> MergedOver(rz_stats.offense_rz, new.offense_rz),
                                 defense_rz |-> MergedOver(rz_stats.defense_rz, new.defense_rz),
                                 offense_all |-> MergedOver(rz_stats.offense_all, new.offense_all),
                                 defense_all |-> MergedOver(rz_stats.defense_all, new.defense_all)]
          ELSE UNCHANGED rz_stats
       /\ matchup_stats' = IF first THEN [matchup_stats EXCEPT !.data_loaded = nfl_up]
                           ELSE matchup_stats
       /\ UNCHANGED <<appVars, vegasVars, calcVars, matchup_boosts, allocation, week_report>>

\* The league averages taken from the loaded plays: the touchdown rate over
\* the drives of all teams of a table.
RateOverTeams(table) ==
    LET drives == SumOver(DOMAIN table, [t \in DOMAIN table |-> table[t].drives])
        tds == SumOver(DOMAIN table, [t \in DOMAIN table |-> table[t].tds])
    IN IF drives = 0 THEN 0 ELSE RoundHalfEven(tds * 100, drives, 10)

LoadDataRecomputingAverages ==
    LET first == league_averages = EmptyDict
        new == CurrentStats(pbp_feed)
    IN /\ league_averages' = IF nfl_up
                             THEN [rz_scoring |-> RateOverTeams(new.offense_rz),
                                   rz_allow |-> RateOverTeams(new.defense_rz),
                                   all_drives_scoring |-> RateOverTeams(new.offense_all),
                                   all_drives_allow |-> RateOverTeams(new.defense_all)]
                             ELSE LeagueAverages2024
       /\ IF nfl_up THEN rz_stats' = new ELSE UNCHANGED rz_stats
       /\ matchup_stats' = IF first THEN [matchup_stats EXCEPT !.data_loaded = nfl_up]
                           ELSE matchup_stats
       /\ UNCHANGED <<appVars, vegasVars, calcVars, matchup_boosts, allocation, week_report>>

\* load_data, called by __init__ (the first call, which sets data_loaded to
\* whether it succeeded) or by refresh_data: the league averages are set to
\* the constants, the plays imported, and current_2025 assigned the tables
\* computed from them; where the import raises current_2025 stays.
LoadData ==
    LET first == league_averages = EmptyDict
    IN /\ league_averages' = LeagueAverages2024
       /\ IF nfl_up THEN rz_stats' = CurrentStats(pbp_feed) ELSE UNCHANGED rz_stats
       /\ matchup_stats' = IF first THEN [matchup_stats EXCEPT !.data_loaded = nfl_up]
                           ELSE matchup_stats
       /\ UNCHANGED <<appVars, vegasVars, calcVars, matchup_boosts, allocation, week_report>>

\* The team's rate in a table of current_2025, None where it has no entry.
SampleOf(table, team) ==
    IF team \in DOMAIN table THEN Some(table[team].rate) ELSE None

\* calculate_matchup_boosts(offense_team, defense_team) of a constructed
\* calculator: it runs load_data first where data_loaded is false or
\* current_2025 is empty, answers the load error where that raises, and
\* else answers from current_2025 and the league averages.
AnalyseMatchup(offense_team, defense_team) ==
    LET reload == ~matchup_stats.data_loaded \/ rz_stats.op = "none"
        stats == IF reload THEN CurrentStats(pbp_feed) ELSE rz_stats
        read == [data_loaded |-> TRUE,
                 offense_team |-> offense_team, defense_team |-> defense_team,
                 offense_rz |-> SampleOf(stats.offense_rz, offense_team),
                 defense_rz |-> SampleOf(stats.defense_rz, defense_team),
                 offense_all |-> SampleOf(stats.offense_all, offense_team),
                 defense_all |-> SampleOf(stats.defense_all, defense_team)]
    IN /\ league_averages # EmptyDict
       /\ IF reload /\ ~nfl_up
          THEN /\ matchup_boosts' = CouldNotLoad
               /\ UNCHANGED <<rz_stats, matchup_stats, league_averages>>
          ELSE /\ rz_stats' = stats
               /\ league_averages' = IF reload THEN LeagueAverages2024 ELSE league_averages
               /\ matchup_stats' = read
               /\ matchup_boosts' \in MatchupBoosts(read, league_averages')
       /\ UNCHANGED <<appVars, vegasVars, calcVars, allocation, week_report>>

(***************************************************************************)
(* SpecStats: loads, refreshes and analyses of one calculator while the    *)
(* data source changes what it publishes.                                  *)
(***************************************************************************)
InitStats ==
    /\ pbp_feed \in ServiceFeeds
    /\ nfl_up \in BOOLEAN
    /\ player_service = NewPlayerUsageService(pbp_feed, nfl_up)
    /\ usage_result = NoResult
    /\ refresh_log = NoRefresh
    /\ CalcIdle
    /\ MarketIdle
    /\ rz_stats = NoResult
    /\ league_averages = EmptyDict
    /\ matchup_stats = NotLoadedYet
    /\ matchup_boosts = NoResult
    /\ allocation = NoResult
    /\ week_report = NoResult

NextStats ==
    \/ UpstreamChange
    \/ LoadData
    \/ \E o \in Teams, d \in Teams : AnalyseMatchup(o, d)

SpecStats == InitStats /\ [][NextStats]_vars

\* The plays give the team (of the column) a drive with 2 or more plays at
\* or inside the 20.
HasRzDrive(pbp, teamcol, team) ==
    \E i \in DOMAIN pbp : \E j \in DOMAIN pbp :
        /\ i # j
        /\ pbp[i][teamcol] = team /\ pbp[j][teamcol] = team
        /\ pbp[i].yardline_100 <= 20 /\ pbp[j].yardline_100 <= 20
        /\ HasDriveKey(pbp[i])
        /\ pbp[i].game_id = pbp[j].game_id
        /\ pbp[i].fixed_drive = pbp[j].fixed_drive

\* The plays give the team (of the column) a drive at all.
HasDrive(pbp, teamcol, team) ==
    \E i \in DOMAIN pbp : pbp[i][teamcol] = team /\ HasDriveKey(pbp[i])

\* The tables hold the teams of the plays and no other.
HoldsTeamsOf(stats, pbp) ==
    /\ \A t \in Teams :
          /\ t \in DOMAIN stats.offense_rz <=> HasRzDrive(pbp, "posteam", t)
          /\ t \in DOMAIN stats.defense_rz <=> HasRzDrive(pbp, "defteam", t)
          /\ t \in DOMAIN stats.offense_all <=> HasDrive(pbp, "posteam", t)
          /\ t \in DOMAIN stats.defense_all <=> HasDrive(pbp, "defteam", t)
    /\ DOMAIN stats.offense_rz \cup DOMAIN stats.defense_rz
          \cup DOMAIN stats.offense_all \cup DOMAIN stats.defense_all \subseteq Teams

\* C23: every load that completes replaces current_2025 as a whole: after
\* it the tables hold exactly the teams and rates of the newly loaded plays,
\* and a team that had an entry and has no qualifying data in the new plays
\* has none.
C23_StatsReplacedOnLoad ==
    [][rz_stats' # rz_stats =>
          /\ rz_stats' = CurrentStats(pbp_feed)
          /\ HoldsTeamsOf(rz_stats', pbp_feed)]_vars

\* The offense team of an earlier analysis had a red-zone rate then, and the
\* tables of the load since, taken from the plays now published, have no
\* entry for it.
C23_Witness ==
    /\ rz_stats.op = "rz_stats"
    /\ rz_stats = CurrentStats(pbp_feed)
    /\ matchup_stats.offense_rz # None
    /\ matchup_stats.offense_team \notin DOMAIN rz_stats.offense_rz
    /\ matchup_stats.offense_team \notin DOMAIN rz_stats.offense_all
    /\ rz_stats.offense_rz # EmptyDict

\* C24: the league baseline is fixed configuration: once load_data has run,
\* whatever loads, refreshes and analyses follow and whatever plays were
\* loaded, the four baseline rates are 59.0, 59.0, 23.3 and 23.3, and no
\* analysis is computed from any other baseline.
C24_LeagueBaselineFixed ==
    /\ league_averages # EmptyDict =>
          /\ league_averages.rz_scoring = 590
          /\ league_averages.rz_allow = 590
          /\ league_averages.all_drives_scoring = 233
          /\ league_averages.all_drives_allow = 233
    /\ Analysed => league_averages # EmptyDict

\* A matchup was analysed from loaded plays whose own red-zone and
\* all-drives touchdown rates are not the baseline rates.
C24_Witness ==
    /\ Analysed
    /\ rz_stats.op = "rz_stats"
    /\ matchup_stats.offense_rz # None
    /\ matchup_stats.offense_rz # Some(590)
    /\ matchup_stats.offense_all # None
    /\ matchup_stats.offense_all # Some(233)
    /\ league_averages.rz_scoring = 590
    /\ league_averages.all_drives_scoring = 233

(***************************************************************************)
(* The player allocation step (PlayerOddsAllocator), which the sources do  *)
(* not hold: modelled from its contract.  Shares are in ten-thousandths,   *)
(* raw allocations in millionths, a weight is a pair <<numerator,          *)
(* denominator>>.                                                          *)
(***************************************************************************)
\* alpha = 0.85 and epsilon = 0.01, in hundredths.
Alpha == 85
Epsilon == 1

RECURSIVE SumSeq(_)
SumSeq(s) == IF s = <<>> THEN 0 ELSE Head(s) + SumSeq(Tail(s))

\* The raw allocation without the floor.
RawAllocationUnfloored(usage_share, td_share) ==
    Alpha * usage_share + (100 - Alpha) * td_share

\* alpha * usage_share + (1 - alpha) * td_share, floored at epsilon.
RawAllocation(usage_share, td_share) ==
    Max(Epsilon * 10000, Alpha * usage_share + (100 - Alpha) * td_share)

\* The normalized allocations of the listed players: each raw allocation
\* over the sum of all; no listed player, no allocation.
NormalizedAllocations(players) ==
    LET raw == [i \in DOMAIN players |->
                   RawAllocation(players[i].rz_usage_share, players[i].td_share)]
    IN [i \in DOMAIN players |-> <<raw[i], SumSeq(raw)>>]

\* The shares a listed player can have: none, 0.002, a half, all.
ShareValues == {0, 20, 5000, 10000}

ListedPlayers ==
    UNION {[1..k -> [rz_usage_share : ShareValues, td_share : ShareValues]] :
              k \in 0..MaxListed}

\* The allocation step for one team.
AllocatePlayers ==
    /\ allocation.op = "listed"
    /\ allocation' = [op |-> "allocated", players |-> allocation.players,
                      weights |-> NormalizedAllocations(allocation.players)]
    /\ UNCHANGED <<appVars, vegasVars, calcVars,
                   rz_stats, matchup_stats, league_averages, matchup_boosts, week_report>>

InitAlloc ==
    /\ allocation \in [op : {"listed"}, players : ListedPlayers]
    /\ week_report = NoResult
    /\ rz_stats = NoResult
    /\ matchup_stats = NoResult
    /\ league_averages = LeagueAverages2024
    /\ matchup_boosts = NoResult
    /\ AppIdle
    /\ CalcIdle
    /\ MarketIdle

NextAlloc == AllocatePlayers

SpecAlloc == InitAlloc /\ [][NextAlloc]_vars

\* C25: every listed player's raw allocation is floored at epsilon before
\* the allocations are normalized, so for a team with at least one listed
\* player every normalized allocation is strictly positive, none lower than
\* epsilon over the team's sum, and the normalized allocations sum to 1.
C25_AllocationsPositiveAndSumToOne ==
    (allocation.op = "allocated" /\ allocation.players # <<>>) =>
        LET w == allocation.weights
        IN /\ DOMAIN w = DOMAIN allocation.players
           /\ \A i \in DOMAIN w :
                 /\ w[i][2] > 0
                 /\ w[i][1] > 0
                 /\ w[i][1] >= 10000
                 /\ w[i][2] = w[1][2]
           /\ SumSeq([i \in DOMAIN w |-> w[i][1]]) = w[1][2]

\* Two players were allocated, one with a raw allocation of 0.5, the other
\* with a usage share of 0.002 and no touchdown share, below epsilon: the
\* second keeps a weight of 0.01 over the sum.
C25_Witness ==
    /\ allocation.op = "allocated"
    /\ Len(allocation.players) = 2
    /\ allocation.players[1] = [rz_usage_share |-> 5000, td_share |-> 5000]
    /\ allocation.players[2] = [rz_usage_share |-> 20, td_share |-> 0]
    /\ allocation.weights[2] = <<10000, 510000>>

(***************************************************************************)
(* The order of the games, the bookmaker and the week of the analysis.     *)
(***************************************************************************)
\* Whether the game ranks at least as high as the other by the larger of its
\* two total advantages: a side without an advantage ranks below every
\* side with one, whatever its value.
RanksAtLeast(game_key, other_key) ==
    LET given(k) == {a \in {AdvantageGiven(k, "away"), AdvantageGiven(k, "home")} :
                        a # None}
        best(k) == CHOOSE a \in given(k) : \A b \in given(k) : Value(a) >= Value(b)
    IN \/ given(other_key) = {}
       \/ given(game_key) # {} /\ Value(best(game_key)) >= Value(best(other_key))

\* C26: the games of the analysis come in the order of highest total team
\* advantage: of any two listed games the earlier one has the larger or
\* equal max(away total advantage, home total advantage), only absent
\* advantages ranking below every present value.
C26_GamesSortedByAdvantage ==
    \A i \in DOMAIN AnalysisGames : \A j \in DOMAIN AnalysisGames :
        i < j => RanksAtLeast(AnalysisGames[i].game, AnalysisGames[j].game)

(***************************************************************************)
(* Properties of the red-zone team rates.                                  *)
(***************************************************************************)
\* The (game, drive) pairs the plays name.
DriveKeys(pbp) ==
    {<<pbp[i].game_id, pbp[i].fixed_drive>> : i \in {j \in DOMAIN pbp : HasDriveKey(pbp[j])}}

\* The plays of the drive at or inside the 20 with the team in the column.
RedZonePlaysOf(pbp, teamcol, team, key) ==
    {i \in DOMAIN pbp : /\ pbp[i][teamcol] = team
                        /\ pbp[i].game_id = key[1]
                        /\ pbp[i].fixed_drive = key[2]
                        /\ pbp[i].yardline_100 <= 20}

\* The drives with at least 2 such plays, and those of them with a
\* touchdown among these plays.
TwoPlayRzDrives(pbp, teamcol, team) ==
    {k \in DriveKeys(pbp) : Cardinality(RedZonePlaysOf(pbp, teamcol, team, k)) >= 2}

TouchdownRzDrives(pbp, teamcol, team) ==
    {k \in TwoPlayRzDrives(pbp, teamcol, team) :
        \E i \in RedZonePlaysOf(pbp, teamcol, team, k) : pbp[i].touchdown = 1}

\* The table is that of the plays for the column: a team has an entry only
\* with a drive of 2+ red-zone plays, its drives and touchdown drives are
\* counted as above, and its rate is 100 * touchdown drives / drives to one
\* decimal, within 0 and 100 (in tenths of a percent).
IsRzTableOf(table, pbp, teamcol) ==
    /\ DOMAIN table = {t \in Teams : TwoPlayRzDrives(pbp, teamcol, t) # {}}
    /\ \A t \in DOMAIN table :
          /\ table[t].drives = Cardinality(TwoPlayRzDrives(pbp, teamcol, t))
          /\ table[t].tds = Cardinality(TouchdownRzDrives(pbp, teamcol, t))
          /\ 2 * Abs(table[t].rate * table[t].drives - 1000 * table[t].tds)
                <= table[t].drives
          /\ table[t].rate >= 0 /\ table[t].rate <= 1000

\* C27: in the red-zone team rates a (game, drive) counts for a team, on
\* offense or on defense, if and only if the team has at least 2 plays of it
\* at or inside the 20; it counts as a touchdown drive if and only if one of
\* those plays is a touchdown; the rate is 100 * touchdown drives / drives,
\* within 0 and 100; a team with no such drive has no entry.
C27_RzRatesUseTwoPlayFilter ==
    rz_stats.op = "rz_stats" =>
        /\ IsRzTableOf(rz_stats.offense_rz, pbp_feed, "posteam")
        /\ IsRzTableOf(rz_stats.defense_rz, pbp_feed, "defteam")

\* The statistics were computed from plays in which one team has a drive of
\* 2 red-zone plays with a touchdown and another a red-zone drive of one
\* play: the first has a rate of 100, the second no entry.
C27_Witness ==
    /\ rz_stats.op = "rz_stats"
    /\ \E t \in Teams, u \in Teams :
          /\ t \in DOMAIN rz_stats.offense_rz
          /\ rz_stats.offense_rz[t].rate = 1000
          /\ u \notin DOMAIN rz_stats.offense_rz
          /\ \E i \in DOMAIN pbp_feed :
                /\ pbp_feed[i].posteam = u
                /\ pbp_feed[i].yardline_100 <= 20
                /\ HasDriveKey(pbp_feed[i])

\* C28: the two computations agree on the red-zone drives of a team: the
\* drives that count for the team's red-zone touchdown rate are the drives
\* whose plays enter the denominator of its usage shares.
C28_SameDrivesInRateAndShares ==
    rz_stats.op = "rz_stats" =>
        \A d \in ReadUsage :
            DriveKeys(RzWorkingSet(player_service.pbp_data, d.team))
                = TwoPlayRzDrives(pbp_feed, "posteam", d.team)

\* The places in the priority list of the bookmakers that offer the game.
OfferedRanks(game) ==
    {i \in DOMAIN BookPriority :
        \E b \in DOMAIN game.bookmakers : game.bookmakers[b].key = BookPriority[i]}

\* The bookmaker of the game that comes first in the priority list.
FirstInPriority(game) ==
    LET rank == CHOOSE i \in OfferedRanks(game) : \A j \in OfferedRanks(game) : i <= j
        b == CHOOSE k \in DOMAIN game.bookmakers :
                 game.bookmakers[k].key = BookPriority[rank]
    IN game.bookmakers[b]

\* The bookmaker lists a totals and a spreads market.
HasBothMarkets(book) ==
    MarketOf(book, "totals") # None /\ MarketOf(book, "spreads") # None

\* C29: every game of the totals is priced by the one bookmaker that comes
\* first in the priority list among those offering the game; a game none of
\* the five offers is skipped; and a game whose first bookmaker lacks the
\* totals or the spreads market is skipped, whatever the bookmakers lower in
\* the list offer.
C29_SingleBookmakerByPriority ==
    (vegas_totals.op = "totals" /\ ~vegas_totals.value.raised) =>
        \A game \in ScheduledGames :
            LET k == KeyOfGame(game)
            IN /\ OfferedRanks(game) = {} => k \notin DOMAIN TotalsReturned
               /\ OfferedRanks(game) # {} /\ ~HasBothMarkets(FirstInPriority(game))
                     => k \notin DOMAIN TotalsReturned
               /\ k \in DOMAIN TotalsReturned =>
                     LET book == FirstInPriority(game)
                         over == OverPoint(Value(MarketOf(book, "totals")))
                         total == IF over = None
                                  THEN Value(MarketOf(book, "totals")).outcomes[1].point
                                  ELSE Value(over)
                         spread == Value(SpreadPoint(Value(MarketOf(book, "spreads")),
                                                     game.home_team))
                     IN /\ OfferedRanks(game) # {}
                        /\ TotalsReturned[k].bookmaker = book.key
                        /\ TotalsReturned[k].home_vegas_tds
                              = VegasTds(HomeImpliedPoints(total, spread))
                        /\ TotalsReturned[k].away_vegas_tds
                              = VegasTds(AwayImpliedPoints(total, spread))

\* The totals hold a game priced by fanduel that draftkings lists first, and
\* leave out a game whose betmgm lacks the spreads while caesars has both
\* markets.
C29_Witness ==
    /\ vegas_totals.op = "totals" /\ ~vegas_totals.value.raised
    /\ \E game \in ScheduledGames :
          /\ Len(game.bookmakers) = 2
          /\ game.bookmakers[1].key = "draftkings"
          /\ game.bookmakers[2].key = "fanduel"
          /\ KeyOfGame(game) \in DOMAIN TotalsReturned
          /\ TotalsReturned[KeyOfGame(game)].bookmaker = "fanduel"
    /\ \E game \in ScheduledGames :
          /\ Len(game.bookmakers) = 2
          /\ game.bookmakers[1].key = "betmgm"
          /\ ~HasBothMarkets(game.bookmakers[1])
          /\ HasBothMarkets(game.bookmakers[2])
          /\ KeyOfGame(game) \notin DOMAIN TotalsReturned

(***************************************************************************)
(* src/main.py: the week of get_team_analysis() called without a week.     *)
(*                                                                         *)
(* Days are numbered from the Monday before the first game; week w plays   *)
(* on its Thursday (day 7w - 3) and its Sunday (day 7w).  The play-by-play *)
(* import raises, or answers with the plays up to max_week (0: no play).   *)
(***************************************************************************)
SeasonSchedule ==
    {[week |-> w, gameday |-> 7 * w - 3] : w \in 1..MaxWeek}
        \cup {[week |-> w, gameday |-> 7 * w] : w \in 1..MaxWeek}

PbpAnswers == [raises : BOOLEAN, max_week : 0..MaxWeek]

\* TeamAnalysisService.get_current_week: the week after the last one with
\* plays; 3 without plays or where the import raises.
ServiceCurrentWeek(pbp) ==
    IF pbp.raises \/ pbp.max_week = 0 THEN 3 ELSE pbp.max_week + 1

\* NFLTDBoostCalculator.get_current_week: the week of the next game of the
\* schedule from today on; on a Tuesday or Wednesday with no game left in
\* the week after the last completed one, two weeks after the last
\* completed one; without a schedule or an upcoming game, the week after
\* the last completed one.
CalculatorCurrentWeek(pbp, schedule, today) ==
    LET max_completed_week == IF pbp.raises THEN 0 ELSE pbp.max_week
        upcoming_games == {g \in schedule : g.gameday >= today}
        first == CHOOSE g \in upcoming_games :
                     \A h \in upcoming_games : g.gameday <= h.gameday
        current_week_games == {g \in schedule : /\ g.week = max_completed_week + 1
                                                /\ g.gameday >= today}
    IN IF upcoming_games # {}
       THEN IF today % 7 \in {2, 3} /\ current_week_games = {}
            THEN max_completed_week + 2
            ELSE first.week
       ELSE max_completed_week + 1

\* get_week_matchups(): the games of the calculator's current week.
CurrentWeekGames(pbp, schedule, today) ==
    {g \in schedule : g.week = CalculatorCurrentWeek(pbp, schedule, today)}

\* get_team_analysis(): the odds are filtered to, and the matchups analysed
\* for, the calculator's current week; without odds for them or without
\* matchups the answer is an error; the report carries the week of
\* TeamAnalysisService.get_current_week.
GetTeamAnalysisWeek ==
    /\ week_report.op = "calendar"
    /\ \E odds_listed \in BOOLEAN :
          LET schedule == IF week_report.schedule_ok THEN SeasonSchedule ELSE {}
              games == CurrentWeekGames(week_report.pbp, schedule, week_report.today)
          IN week_report' =
                IF ~odds_listed \/ games = {}
                THEN [week_report EXCEPT !.op = "error"]
                ELSE [op |-> "report", pbp |-> week_report.pbp,
                      schedule_ok |-> week_report.schedule_ok,
                      today |-> week_report.today,
                      week |-> ServiceCurrentWeek(week_report.pbp),
                      matchup_weeks |-> {g.week : g \in games}]
    /\ UNCHANGED <<appVars, vegasVars, calcVars,
                   rz_stats, matchup_stats, league_averages, matchup_boosts, allocation>>

InitWeek ==
    /\ week_report \in [op : {"calendar"}, pbp : PbpAnswers, schedule_ok : BOOLEAN,
                        today : 1..(7 * MaxWeek + 1)]
    /\ allocation = NoResult
    /\ rz_stats = NoResult
    /\ matchup_stats = NoResult
    /\ league_averages = LeagueAverages2024
    /\ matchup_boosts = NoResult
    /\ AppIdle
    /\ CalcIdle
    /\ MarketIdle

NextWeek == GetTeamAnalysisWeek

SpecWeek == InitWeek /\ [][NextWeek]_vars

\* C30: the week a get_team_analysis() without a week reports is the week
\* of the matchups whose games it lists.
C30_ReportedWeekIsMatchupWeek ==
    week_report.op = "report" => week_report.matchup_weeks = {week_report.week}

====
